---- MODULE Spec2Model ----
(***************************************************************************)
(* KeyFlip: the hotkey-triggered text-replace pipeline.                    *)
(*                                                                         *)
(* Specifications over one set of variables:                               *)
(*   Spec          the transform dispatch (debounce, handler lock) with    *)
(*                 the clock, and the worker cycle capture -> transform    *)
(*                 -> delete -> inject -> restore modifiers -> release;    *)
(*   SpecCycle     the same actions without the clock: the capture cycle   *)
(*                 of one accepted trigger over the full set of inputs;    *)
(*   SpecRegistry  the dispatch loop's hotkey registry: startup, the       *)
(*                 thread message queue, re-apply / register / unregister  *)
(*                 requests posted by the tray and capture threads;        *)
(*   SpecLoop      the dispatch loop: hotkey notifications, exit           *)
(*                 callbacks and the ways the loop ends;                   *)
(*   SpecCapture   the capture of a new combination with the low-level     *)
(*                 keyboard hook;                                          *)
(*   SpecInject    send_unicode_via_sendinput on every text of a bounded   *)
(*                 set;                                                    *)
(*   SpecCase      change_case_by_logic on every text of a bounded set;    *)
(*   SpecLayout    the layout flip on every text and layout id of a        *)
(*                 bounded set;                                            *)
(*   SpecPost      the post_* requests made at any moment of the dispatch  *)
(*                 loop's life;                                            *)
(*   SpecFailures  the failure paths of the startup registrations and of   *)
(*                 the workers' cycles;                                    *)
(*   SpecSettings  two settings changes by two threads, step by step;      *)
(*   SpecTrip      the key name stored for a captured key and the code it  *)
(*                 resolves to, on every keyboard code of one byte;        *)
(*   SpecExit      the exit hotkey and the tray's exit item;               *)
(*   SpecRecover   the registry after a slot was rejected with Conflict,   *)
(*                 with the history of the rejected slots.                 *)
(* Texts are sequences of Unicode code points.  Time is counted in ticks   *)
(* of 0.2 s.                                                               *)
(***************************************************************************)
EXTENDS Integers, Sequences, FiniteSets, TLC

VARIABLES
  \* ---- configuration layer (config.py) ----
  enabled,            \* config._enabled
  cfg,                \* keyflip.json: slot -> stored hotkey spec
  \* ---- transform dispatch (winapi.py, 578-822) ----
  now,                \* time.time(), in ticks
  last_translate_ts,  \* _last_translate_ts
  handler_lock,       \* _handler_lock is held
  wk,                 \* worker threads: thread slot -> invocation record
  prevTrig, lastTrig, \* history: the two most recent triggers dispatched
  lastSpawnTs,        \* history: when the last worker was spawned
  nTrig,              \* history: triggers dispatched so far
  \* ---- environment of a capture cycle ----
  clipboard,          \* clipboard text
  clipSeq,            \* GetClipboardSequenceNumber()
  fg,                 \* foreground window
  keysDown,           \* modifier keys the OS sees as down
  doc,                \* text selected in the target window
  copyPending,        \* a copy keystroke the target has not yet acted on
  scenario,           \* the inputs a behaviour draws from; never changes
  \* ---- dispatch loop and registry (winapi.py, 826-1183, 1521-1662) ----
  loopPc,             \* position of win_hotkey_loop
  threadId,           \* HOTKEY_THREAD_ID has been published
  queue,              \* the loop thread's message queue
  registered,         \* OS hotkey table of the process: slot -> <<mask, vk>> or NotRegistered
  exit_event,         \* exit_event is set
  lastAttempt,        \* history: the last update_*_hotkey_in_thread call
  regCallers,         \* history: threads that called Register/UnregisterHotKey
  tray,               \* tray thread: position and locals
  cap,                \* capture thread: position and locals
  \* ---- exit notification (winapi.py, 136-157, 1549-1662) ----
  exit_handlers,      \* _exit_handlers
  exit_calls,         \* history: callback -> the threads that invoked it, in order
  lastExit,           \* history: why the loop ended, and the notifications it left behind
  lastPost,           \* history: the post_* request made last, and what it returned
  lastUnreg,          \* history: the MSG_UNREGISTER_* request the loop processed last
  \* ---- capture of a new combination (winapi.py, 1245-1376) ----
  hookFlow,           \* capture_hotkey_via_hook_blocking: position and locals
  osHooks,            \* WH_KEYBOARD_LL hooks this process has installed
  \* ---- text functions called on their own (winapi.py 230-293, transform.py 100-119) ----
  inj,                \* one call of send_unicode_via_sendinput: text, position, batches given to SendInput
  flip,               \* one call of change_case_by_logic: text, position, result
  lay,                \* one call of transform_text_by_keyboard_layout_based_on_hkl: text, layout id, position, result
  trip,               \* one key seen by the capture flow: its code, the name stored for it, the code the name resolves to
  \* ---- settings changes step by step (tray.py 224-290, winapi.py 1392-1512, config.py 31-68) ----
  edit                \* thread -> position and locals of a settings change: target, candidate, the JSON it read

dispatchVars ==
  <<now, last_translate_ts, handler_lock, wk, prevTrig, lastTrig, lastSpawnTs, nTrig,
    clipboard, clipSeq, fg, keysDown, doc, copyPending>>

registryVars ==
  <<cfg, threadId, queue, registered, exit_event, lastAttempt, regCallers, tray, cap>>

exitVars == <<exit_handlers, exit_calls, lastExit>>

hookVars == <<hookFlow, osHooks>>

textVars == <<inj, flip, lay, trip, edit>>

vars ==
  <<enabled, loopPc, scenario, dispatchVars, registryVars, exitVars, lastUnreg, hookVars, textVars, lastPost>>

----------------------------------------------------------------------------
\* Bounds of the model.

MaxTime == 6          \* the clock stops here
MaxTriggers == 3      \* triggers dispatched in one behaviour
MaxWorkers == 2       \* thread slots for workers
MaxQueue == 1         \* room in the loop thread's message queue
MaxPolls == 2         \* rounds of a polling loop before timeout_per_attempt is over
MaxPending == 2       \* hotkey notifications waiting in the loop thread's queue
MaxKeys == 2          \* key-down events the keyboard listener sees in one capture
MaxText == 3          \* characters of a text given to a text function on its own

----------------------------------------------------------------------------
\* Program constants.

VK_CONTROL == 17
VK_MENU == 18
VK_SHIFT == 16
VK_ESCAPE == 27
VK_RETURN == 13
VK_TAB == 9
KEYEVENTF_UNICODE == 4
KEYEVENTF_KEYUP == 2
VK_LSHIFT == 160
VK_RSHIFT == 161
VK_LCONTROL == 162
VK_RCONTROL == 163
VK_LMENU == 164
VK_RMENU == 165
VK_LWIN == 91
VK_RWIN == 92

\* _TRANSLATE_DEBOUNCE_SEC = 0.6 s, in ticks of 0.2 s
TRANSLATE_DEBOUNCE_SEC == 3

\* LANGID of the Russian layout, 0x0419
LANG_RU == 1049
MOD_ALT == 1
MOD_CONTROL == 2
MOD_SHIFT == 4
MOD_WIN == 8

----------------------------------------------------------------------------
\* transform.py: the layout tables, as sets of <<from, to>> code points.

EN_TO_RU ==
  {
    <<113, 1081>>, <<119, 1094>>, <<101, 1091>>, <<114, 1082>>, <<116, 1077>>, <<121, 1085>>,
    <<117, 1075>>, <<105, 1096>>, <<111, 1097>>, <<112, 1079>>, <<97, 1092>>, <<115, 1099>>,
    <<100, 1074>>, <<102, 1072>>, <<103, 1087>>, <<104, 1088>>, <<106, 1086>>, <<107, 1083>>,
    <<108, 1076>>, <<122, 1103>>, <<120, 1095>>, <<99, 1089>>, <<118, 1084>>, <<98, 1080>>,
    <<110, 1090>>, <<109, 1100>>, <<49, 49>>, <<33, 33>>, <<50, 50>>, <<64, 34>>,
    <<51, 51>>, <<35, 8470>>, <<52, 52>>, <<36, 59>>, <<53, 53>>, <<37, 37>>,
    <<54, 54>>, <<94, 58>>, <<55, 55>>, <<38, 63>>, <<56, 56>>, <<42, 42>>,
    <<57, 57>>, <<40, 40>>, <<48, 48>>, <<41, 41>>, <<44, 1073>>, <<60, 1041>>,
    <<46, 1102>>, <<62, 1070>>, <<47, 46>>, <<63, 44>>, <<59, 1078>>, <<58, 1046>>,
    <<39, 1101>>, <<34, 1069>>, <<91, 1093>>, <<123, 1061>>, <<93, 1098>>, <<125, 1066>>,
    <<92, 92>>, <<124, 124>>, <<96, 1105>>, <<126, 1025>>, <<45, 45>>, <<95, 95>>,
    <<61, 61>>, <<43, 43>>, <<81, 1049>>, <<87, 1062>>, <<69, 1059>>, <<82, 1050>>,
    <<84, 1045>>, <<89, 1053>>, <<85, 1043>>, <<73, 1064>>, <<79, 1065>>, <<80, 1047>>,
    <<65, 1060>>, <<83, 1067>>, <<68, 1042>>, <<70, 1040>>, <<71, 1055>>, <<72, 1056>>,
    <<74, 1054>>, <<75, 1051>>, <<76, 1044>>, <<90, 1071>>, <<88, 1063>>, <<67, 1057>>,
    <<86, 1052>>, <<66, 1048>>, <<78, 1058>>, <<77, 1068>>
  }

RU_TO_EN ==
  {
    <<1081, 113>>, <<1094, 119>>, <<1091, 101>>, <<1082, 114>>, <<1077, 116>>, <<1085, 121>>,
    <<1075, 117>>, <<1096, 105>>, <<1097, 111>>, <<1079, 112>>, <<1092, 97>>, <<1099, 115>>,
    <<1074, 100>>, <<1072, 102>>, <<1087, 103>>, <<1088, 104>>, <<1086, 106>>, <<1083, 107>>,
    <<1076, 108>>, <<1103, 122>>, <<1095, 120>>, <<1089, 99>>, <<1084, 118>>, <<1080, 98>>,
    <<1090, 110>>, <<1100, 109>>, <<49, 49>>, <<33, 33>>, <<50, 50>>, <<34, 64>>,
    <<51, 51>>, <<8470, 35>>, <<52, 52>>, <<59, 36>>, <<53, 53>>, <<37, 37>>,
    <<54, 54>>, <<58, 94>>, <<55, 55>>, <<63, 38>>, <<56, 56>>, <<42, 42>>,
    <<57, 57>>, <<40, 40>>, <<48, 48>>, <<41, 41>>, <<1073, 44>>, <<1041, 60>>,
    <<1102, 46>>, <<1070, 62>>, <<46, 47>>, <<44, 63>>, <<1078, 59>>, <<1046, 58>>,
    <<1101, 39>>, <<1069, 34>>, <<1093, 91>>, <<1061, 123>>, <<1098, 93>>, <<1066, 125>>,
    <<92, 92>>, <<124, 124>>, <<1105, 96>>, <<1025, 126>>, <<45, 45>>, <<95, 95>>,
    <<61, 61>>, <<43, 43>>, <<1049, 81>>, <<1062, 87>>, <<1059, 69>>, <<1050, 82>>,
    <<1045, 84>>, <<1053, 89>>, <<1043, 85>>, <<1064, 73>>, <<1065, 79>>, <<1047, 80>>,
    <<1060, 65>>, <<1067, 83>>, <<1042, 68>>, <<1040, 70>>, <<1055, 71>>, <<1056, 72>>,
    <<1054, 74>>, <<1051, 75>>, <<1044, 76>>, <<1071, 90>>, <<1063, 88>>, <<1057, 67>>,
    <<1052, 86>>, <<1048, 66>>, <<1058, 78>>, <<1068, 77>>
  }

InTable(table, ch) == \E p \in table : p[1] = ch

Lookup(table, ch) == (CHOOSE p \in table : p[1] = ch)[2]

\* the direction fixed, whatever the layout id
AlwaysEnToRu(hkl) == <<EN_TO_RU, RU_TO_EN>>

\* (mapping, reverse) chosen by the layout id
select_mappings_by_hkl(hkl) ==
  IF hkl % 65536 = LANG_RU THEN <<RU_TO_EN, EN_TO_RU>> ELSE <<EN_TO_RU, RU_TO_EN>>

MapChar(mapping, reverse, ch) ==
  IF InTable(mapping, ch) THEN Lookup(mapping, ch)
  ELSE IF InTable(reverse, ch) THEN Lookup(reverse, ch)
  ELSE ch

transform_text_by_keyboard_layout_based_on_hkl(s, hkl) ==
  LET m == select_mappings_by_hkl(hkl)
  IN  IF s = <<>> THEN <<>>
      ELSE [i \in 1..Len(s) |-> MapChar(m[1], m[2], s[i])]

\* str.isalpha / str.islower / str.isupper / str.upper / str.lower on the
\* Latin and Cyrillic letters of the tables, on the circled Latin letters
\* U+24B6..U+24E9 (cased symbols, not letters) and on U+4E2D (a letter without
\* case); every other character of the model is caseless and not a letter.
IsLowerCh(c) == c \in (97..122) \cup (1072..1103) \cup {1105} \cup (9424..9449)

IsUpperCh(c) == c \in (65..90) \cup (1040..1071) \cup {1025} \cup (9398..9423)

IsAlphaCh(c) ==
  c \in (65..90) \cup (97..122) \cup (1040..1103) \cup {1025, 1105} \cup {20013}

UpperCh(c) ==
  IF c \in (97..122) \cup (1072..1103) THEN c - 32
  ELSE IF c = 1105 THEN 1025
  ELSE IF c \in 9424..9449 THEN c - 26 ELSE c

LowerCh(c) ==
  IF c \in (65..90) \cup (1040..1071) THEN c + 32
  ELSE IF c = 1025 THEN 1105
  ELSE IF c \in 9398..9423 THEN c + 26 ELSE c

\* the mixed-case rule turned round: anything but all-uppercase goes to uppercase
FlipMixedToUpper(s) ==
  IF s = <<>> THEN s
  ELSE LET letters == {i \in 1..Len(s) : IsAlphaCh(s[i])}
       IN  IF letters = {} THEN s
           ELSE IF \A i \in letters : IsUpperCh(s[i])
                THEN [i \in 1..Len(s) |-> LowerCh(s[i])]
                ELSE [i \in 1..Len(s) |-> UpperCh(s[i])]

change_case_by_logic(s) ==
  IF s = <<>> THEN s
  ELSE LET letters == {i \in 1..Len(s) : IsAlphaCh(s[i])}
       IN  IF letters = {} THEN s
           ELSE IF \A i \in letters : IsLowerCh(s[i])
                THEN [i \in 1..Len(s) |-> UpperCh(s[i])]
                ELSE [i \in 1..Len(s) |-> LowerCh(s[i])]

----------------------------------------------------------------------------
\* Inputs of a capture cycle.

\* the selection in the foreground window when the hotkey fires:
\* none, "gh", "1"
Selections == { <<>>, <<103, 104>>, <<49>> }

\* layout ids of the foreground thread: Russian, English (US)
HKLs == {1049, 1033}

\* modifier keys down when the hotkey fires
HeldSets == { {}, {VK_RSHIFT}, {VK_LCONTROL, VK_RMENU} }

\* the inputs of SpecCycle: every selection, layout and key set above, with
\* the clipboard sequence number available or not, and polling loops of
\* MaxPolls rounds
CycleScenario ==
  [selections |-> Selections, hkls |-> HKLs, heldSets |-> HeldSets,
   seqAvailable |-> BOOLEAN, rounds |-> MaxPolls, keepRejected |-> FALSE]

\* the inputs of Spec, where the clock runs: "." selected (the layout flip
\* changes it, the case flip does not) under the English layout with right
\* Shift down, and polling loops of one round
DispatchScenario ==
  [selections |-> { <<46>> }, hkls |-> {1033}, heldSets |-> { {VK_RSHIFT} },
   seqAvailable |-> BOOLEAN, rounds |-> 1, keepRejected |-> FALSE]

\* the inputs of SpecRecover: those of Spec, with the history of the slots
\* rejected with Conflict kept in lastAttempt.rejected
RecoverScenario == [DispatchScenario EXCEPT !.keepRejected = TRUE]

\* the unique sentinel string of the fallback strategy
Sentinel == <<-1>>

\* old_seq = None
NoSeq == -1

Workers == 1..MaxWorkers

Kinds == {"translate", "case"}

\* the keys _detect_pressed_modifier_vks looks at
ModifierVKs ==
  {VK_LCONTROL, VK_RCONTROL, VK_LMENU, VK_RMENU, VK_LSHIFT, VK_RSHIFT, VK_LWIN, VK_RWIN}

\* max_attempts passed by the handlers
MAX_ATTEMPTS == 2

IdleWorker ==
  [pc |-> "idle", kind |-> "none", hkl |-> 0, initial_hwnd |-> "none",
   old_seq |-> NoSeq, pressed_vks |-> {}, selected |-> <<>>, converted |-> <<>>,
   ev |-> <<>>, clipBefore |-> <<>>, sentinelWritten |-> FALSE, outcome |-> "none",
   polls |-> 0, fgChanged |-> FALSE]

\* history record of a trigger: when it was dispatched, what became of it,
\* how many workers were in flight, and the time since the last spawn before it
NoTrig == [t |-> -1, outcome |-> "none", inflight |-> 0, sinceSpawn |-> -1]

\* a synthesized input event, with the window that receives it
Ev(kind, keys, text) ==
  [kind |-> kind, keys |-> keys, text |-> text,
   hwnd |-> IF kind \in {"delete", "inject"} THEN fg ELSE "any"]

InFlight(w) == wk[w].pc \notin {"idle", "done"}

NumInFlight == Cardinality({w \in Workers : InFlight(w)})

----------------------------------------------------------------------------
\* Dispatch loop shutdown: the finally block of win_hotkey_loop.

NotRegistered == <<>>

Slots == {"exit", "translate", "case"}

\* the callbacks that can be registered
Callbacks == {"cb_tray", "cb_main"}

SeqRange(s) == {s[i] : i \in 1..Len(s)}

\* register_exit_handler(cb): the list after it
register_exit_handler_list(handlers, cb) ==
  IF cb \notin SeqRange(handlers) THEN Append(handlers, cb) ELSE handlers

\* an exit notification that calls nobody
InvokeNothing(calls, thread) == calls

\* _invoke_exit_handlers(), run by `thread`: every callback of the list is
\* called, an exception of one does not stop the others
_invoke_exit_handlers(calls, thread) ==
  [cb \in Callbacks |-> IF cb \in SeqRange(exit_handlers) THEN Append(calls[cb], thread)
                        ELSE calls[cb]]

NoExit == [why |-> "none", pending |-> 0]

\* the translate and case notifications among the messages msgs
PendingTriggers(msgs) ==
  Cardinality({i \in 1..Len(msgs) : msgs[i] \in {"WM_HOTKEY_TRANSLATE", "WM_HOTKEY_CASE"}})

\* the finally block, entered with the callbacks' history `calls`
LoopCleanupAfter(calls) ==
  /\ registered' = [s \in Slots |-> NotRegistered]
  /\ regCallers' = regCallers \cup {"loop"}
  /\ exit_event' = TRUE
  /\ exit_calls' = _invoke_exit_handlers(calls, "loop")

LoopCleanup == LoopCleanupAfter(exit_calls)

----------------------------------------------------------------------------
\* Transform dispatch: _translate_invoker / _case_invoker.

\* a try-lock that succeeds even while the lock is held
AcquireAlways == TRUE

\* _handler_lock.acquire(blocking=False)
TryAcquire == ~handler_lock

\* the debounce comparison the wrong way round
DebouncedInverted == now - last_translate_ts > TRANSLATE_DEBOUNCE_SEC

\* now - _last_translate_ts < _TRANSLATE_DEBOUNCE_SEC
Debounced == now - last_translate_ts < TRANSLATE_DEBOUNCE_SEC

\* an invoker without the is_enabled() check
OutcomeIgnoringEnabled(startOk) ==
  IF Debounced THEN "debounce"
  ELSE IF ~TryAcquire THEN "busy"
  ELSE IF startOk THEN "spawned"
  ELSE "startfail"

\* what the invoker does with a trigger; startOk: Thread.start() succeeds
InvokerOutcome(startOk) ==
  IF ~enabled THEN "disabled"
  ELSE IF Debounced THEN "debounce"
  ELSE IF ~TryAcquire THEN "busy"
  ELSE IF startOk THEN "spawned"
  ELSE "startfail"

FreeSlot == CHOOSE w \in Workers : ~InFlight(w) /\ \A v \in Workers : v < w => InFlight(v)

NewWorker(kind) == [IdleWorker EXCEPT !.pc = "start", !.kind = kind]

\* the loop calls the invoker for a translate or case notification.
\* The window in the foreground at that moment is the target; sel is its
\* selection and held the modifier keys down.  When Thread.start() raises,
\* the exception ends the loop.
InvokerCall(kind) ==
  /\ loopPc = "running"
  /\ nTrig < MaxTriggers
  /\ \E startOk \in BOOLEAN :
       LET out == InvokerOutcome(startOk) IN
       /\ out = "spawned" => \E w \in Workers : ~InFlight(w)
       /\ last_translate_ts' = IF out \in {"busy", "spawned", "startfail"}
                               THEN now ELSE last_translate_ts
       /\ handler_lock' = IF out \in {"spawned", "startfail"} THEN TRUE ELSE handler_lock
       /\ wk' = IF out = "spawned" THEN [wk EXCEPT ![FreeSlot] = NewWorker(kind)] ELSE wk
       /\ prevTrig' = lastTrig
       /\ lastTrig' = [t |-> now, outcome |-> out, inflight |-> NumInFlight,
                       sinceSpawn |-> IF lastSpawnTs < 0 THEN -1 ELSE now - lastSpawnTs]
       /\ lastSpawnTs' = IF out = "spawned" THEN now ELSE lastSpawnTs
       /\ nTrig' = nTrig + 1
       /\ IF out = "spawned"
          THEN \E sel \in scenario.selections, held \in scenario.heldSets :
                 /\ fg' = "target"
                 /\ doc' = sel
                 /\ keysDown' = held
                 /\ copyPending' = FALSE
          ELSE UNCHANGED <<fg, doc, keysDown, copyPending>>
       /\ IF out = "startfail"
          THEN /\ loopPc' = "exited"
               /\ LoopCleanup
               /\ lastExit' = [why |-> "fatal",
                               pending |-> IF queue = <<>> THEN 0
                                           ELSE PendingTriggers(Tail(queue))]
          ELSE UNCHANGED <<loopPc, registered, regCallers, exit_event, exit_calls, lastExit>>
  /\ UNCHANGED <<enabled, scenario, now, clipboard, clipSeq>>
  /\ UNCHANGED <<cfg, threadId, lastAttempt, tray, cap, exit_handlers, lastUnreg, hookVars, textVars, lastPost>>

\* WM_HOTKEY for translate or case reaches the loop at once
Invoker(kind) ==
  /\ InvokerCall(kind)
  /\ UNCHANGED queue

_translate_invoker == Invoker("translate")

_case_invoker == Invoker("case")

----------------------------------------------------------------------------
\* The worker thread: handle_hotkey_transform / handle_hotkey_case with
\* safe_copy_from_selection inlined, then the lock release of _worker.

trigVars == <<now, last_translate_ts, prevTrig, lastTrig, lastSpawnTs, nTrig>>

loopSide == <<loopPc, scenario, registryVars, exitVars, lastUnreg, hookVars, textVars, lastPost>>

\* foreground_changed()
foreground_changed(w) == fg # wk[w].initial_hwnd

\* safe_copy_from_selection returns (text, pressed_vks)
Return(w, text) ==
  wk' = [wk EXCEPT ![w].pc = "captured", ![w].selected = text, ![w].polls = 0]

\* the steps of safe_copy_from_selection after its first lines
CapturePcs ==
  {"seq_ctrl_c", "seq_wait_c", "seq_paste_c", "seq_ctrl_ins", "seq_wait_i", "seq_paste_i",
   "fb_sentinel", "fb_ctrl_c", "fb_wait_c", "fb_ctrl_ins", "fb_wait_i"}

InCapture(w) == wk[w].pc \in CapturePcs

\* a copy keystroke (Ctrl+C or Ctrl+Insert) reaches the foreground window;
\* the target copies its selection some time later
SendCopy(w, kind) ==
  /\ wk' = [wk EXCEPT ![w].pc = IF kind = "ctrl_c"
                                  THEN (IF wk[w].pc = "seq_ctrl_c" THEN "seq_wait_c" ELSE "fb_wait_c")
                                  ELSE (IF wk[w].pc = "seq_ctrl_ins" THEN "seq_wait_i" ELSE "fb_wait_i"),
                      ![w].ev = Append(@, Ev(kind, {}, <<>>))]
  /\ copyPending' = IF fg = "target" /\ doc # <<>> THEN TRUE ELSE copyPending

\* entry of the handler: the enabled check, the layout id, and the start
\* of safe_copy_from_selection (window, sequence number, modifier release)
HandleBegin(w) ==
  /\ wk[w].pc = "start"
  /\ IF ~enabled
     THEN /\ wk' = [wk EXCEPT ![w].pc = "finally", ![w].outcome = "disabled"]
          /\ UNCHANGED keysDown
     ELSE \E hkl \in (IF wk[w].kind = "translate" THEN scenario.hkls ELSE {0}),
             seqOk \in scenario.seqAvailable :
            LET pressed == keysDown \cap ModifierVKs IN
            /\ wk' = [wk EXCEPT
                        ![w].pc = IF ~seqOk THEN "fb_sentinel"
                                  ELSE IF 1 <= MAX_ATTEMPTS THEN "seq_ctrl_c"
                                  ELSE "captured",
                        ![w].hkl = hkl,
                        ![w].initial_hwnd = fg,
                        ![w].old_seq = IF seqOk THEN clipSeq ELSE NoSeq,
                        ![w].pressed_vks = pressed,
                        ![w].clipBefore = clipboard,
                        ![w].ev = IF pressed # {} THEN <<Ev("release", pressed, <<>>)>> ELSE <<>>]
            /\ keysDown' = keysDown \ pressed
  /\ UNCHANGED <<enabled, handler_lock, trigVars, clipboard, clipSeq, fg, doc, copyPending, loopSide>>

\* sequence strategy: the foreground check and Ctrl+C of an attempt
SeqCtrlC(w) ==
  /\ wk[w].pc = "seq_ctrl_c"
  /\ IF foreground_changed(w)
     THEN Return(w, <<>>) /\ UNCHANGED copyPending
     ELSE SendCopy(w, "ctrl_c")
  /\ UNCHANGED <<enabled, handler_lock, trigVars, clipboard, clipSeq, fg, keysDown, doc, loopSide>>

\* an attempt loop that starts over with Ctrl+C after every failed wait
RetryForever(w) ==
  wk' = [wk EXCEPT ![w].pc = "seq_ctrl_c", ![w].polls = 0]

\* what follows a wait of the sequence strategy that brought no text: after
\* Ctrl+C the Ctrl+Insert keystroke; after Ctrl+Insert the attempt loop is
\* left (break), whatever max_attempts is, and "" is returned
SeqGiveUp(w) ==
  IF wk[w].pc \in {"seq_wait_c", "seq_paste_c"}
  THEN wk' = [wk EXCEPT ![w].pc = "seq_ctrl_ins", ![w].polls = 0]
  ELSE Return(w, <<>>)

\* sequence strategy: one round of the polling loop after a copy keystroke:
\* the foreground check, the sequence number, time.sleep(0.02)
SeqWait(w) ==
  /\ wk[w].pc \in {"seq_wait_c", "seq_wait_i"}
  /\ IF foreground_changed(w) THEN Return(w, <<>>)
     ELSE IF clipSeq # wk[w].old_seq
          THEN wk' = [wk EXCEPT ![w].pc = IF wk[w].pc = "seq_wait_c" THEN "seq_paste_c"
                                          ELSE "seq_paste_i",
                                ![w].polls = 0]                  \* changed = True; break
          ELSE IF wk[w].polls + 1 < scenario.rounds
               THEN wk' = [wk EXCEPT ![w].polls = @ + 1]         \* the loop goes round
               ELSE SeqGiveUp(w)                                 \* timeout_per_attempt is over
  /\ UNCHANGED <<enabled, handler_lock, trigVars, clipboard, clipSeq, fg, keysDown, doc,
                 copyPending, loopSide>>

\* sequence strategy: "if changed": pyperclip.paste() and the return of its text
SeqPaste(w) ==
  /\ wk[w].pc \in {"seq_paste_c", "seq_paste_i"}
  /\ \/ Return(w, clipboard)     \* pyperclip.paste() returns
     \/ SeqGiveUp(w)             \* pyperclip.paste() raises
  /\ UNCHANGED <<enabled, handler_lock, trigVars, clipboard, clipSeq, fg, keysDown, doc,
                 copyPending, loopSide>>

SeqCtrlIns(w) ==
  /\ wk[w].pc = "seq_ctrl_ins"
  /\ IF foreground_changed(w)
     THEN Return(w, <<>>) /\ UNCHANGED copyPending
     ELSE SendCopy(w, "ctrl_insert")
  /\ UNCHANGED <<enabled, handler_lock, trigVars, clipboard, clipSeq, fg, keysDown, doc, loopSide>>

\* sentinel fallback: write the sentinel
FbSentinel(w) ==
  /\ wk[w].pc = "fb_sentinel"
  /\ IF foreground_changed(w)
     THEN Return(w, <<>>) /\ UNCHANGED <<clipboard, clipSeq>>
     ELSE \/ /\ wk' = [wk EXCEPT ![w].pc = "fb_ctrl_c", ![w].sentinelWritten = TRUE]
             /\ clipboard' = Sentinel
             /\ clipSeq' = clipSeq + 1
          \/ Return(w, <<>>) /\ UNCHANGED <<clipboard, clipSeq>>   \* pyperclip.copy raises
  /\ UNCHANGED <<enabled, handler_lock, trigVars, fg, keysDown, doc, copyPending, loopSide>>

FbCtrlC(w) ==
  /\ wk[w].pc = "fb_ctrl_c"
  /\ IF foreground_changed(w)
     THEN Return(w, <<>>) /\ UNCHANGED copyPending
     ELSE SendCopy(w, "ctrl_c")
  /\ UNCHANGED <<enabled, handler_lock, trigVars, clipboard, clipSeq, fg, keysDown, doc, loopSide>>

\* sentinel fallback: one round of the polling loop after a copy keystroke:
\* the foreground check, pyperclip.paste(), time.sleep(0.02)
FbWait(w) ==
  /\ wk[w].pc \in {"fb_wait_c", "fb_wait_i"}
  /\ LET again == IF wk[w].polls + 1 < scenario.rounds
                  THEN wk' = [wk EXCEPT ![w].polls = @ + 1]
                  ELSE IF wk[w].pc = "fb_wait_c"
                       THEN wk' = [wk EXCEPT ![w].pc = "fb_ctrl_ins", ![w].polls = 0]
                       ELSE Return(w, <<>>)
     IN  IF foreground_changed(w) THEN Return(w, <<>>)
         ELSE \/ clipboard # Sentinel /\ Return(w, clipboard)
              \/ again        \* still the sentinel, or pyperclip.paste() raises
  /\ UNCHANGED <<enabled, handler_lock, trigVars, clipboard, clipSeq, fg, keysDown, doc,
                 copyPending, loopSide>>

FbCtrlIns(w) ==
  /\ wk[w].pc = "fb_ctrl_ins"
  /\ IF foreground_changed(w)
     THEN Return(w, <<>>) /\ UNCHANGED copyPending
     ELSE SendCopy(w, "ctrl_insert")
  /\ UNCHANGED <<enabled, handler_lock, trigVars, clipboard, clipSeq, fg, keysDown, doc, loopSide>>

\* the pure transform of the handler
Transform(kind, selected, hkl) ==
  IF kind = "translate"
  THEN transform_text_by_keyboard_layout_based_on_hkl(selected, hkl)
  ELSE change_case_by_logic(selected)

\* a handler without the two early returns
ReplaceAlways(selected, converted) == TRUE

\* a handler without the "converted == selected" early return
ReplaceWhenSelected(selected, converted) == selected # <<>>

\* the two early returns: "if not selected" and "if converted == selected"
ShouldReplace(selected, converted) == selected # <<>> /\ converted # selected

\* after capture: transform and decide; raised: an exception in the try body
HandleCaptured(w) ==
  /\ wk[w].pc = "captured"
  /\ \E raised \in BOOLEAN :
       LET sel == wk[w].selected
           conv == Transform(wk[w].kind, sel, wk[w].hkl)
       IN  IF raised /\ sel # <<>>
           THEN wk' = [wk EXCEPT ![w].pc = "finally", ![w].outcome = "failed"]
           ELSE IF ShouldReplace(sel, conv)
                THEN wk' = [wk EXCEPT ![w].pc = "delete", ![w].converted = conv]
                ELSE wk' = [wk EXCEPT ![w].pc = "finally",
                                      ![w].outcome = IF sel = <<>> THEN "empty" ELSE "noop"]
  /\ UNCHANGED <<enabled, handler_lock, trigVars, clipboard, clipSeq, fg, keysDown, doc,
                 copyPending, loopSide>>

\* a handler that goes to the injection without send_delete()
HandleWithoutDelete(w) ==
  /\ wk[w].pc = "delete"
  /\ wk' = [wk EXCEPT ![w].pc = "inject"]
  /\ UNCHANGED <<enabled, handler_lock, trigVars, clipboard, clipSeq, fg, keysDown, doc,
                 copyPending, loopSide>>

\* send_delete()
HandleDelete(w) ==
  /\ wk[w].pc = "delete"
  /\ wk' = [wk EXCEPT ![w].pc = "inject", ![w].ev = Append(@, Ev("delete", {}, <<>>))]
  /\ doc' = IF fg = "target" THEN <<>> ELSE doc
  /\ UNCHANGED <<enabled, handler_lock, trigVars, clipboard, clipSeq, fg, keysDown,
                 copyPending, loopSide>>

\* how a call of send_unicode_via_sendinput ends for its caller: the batch was
\* submitted ("sent"), or building or submitting it failed and the function's
\* own try/except logged the exception and returned ("swallowed"); no
\* exception leaves the function ("raised" is not among them)
InjectOutcomes == {"sent", "swallowed"}

\* send_unicode_via_sendinput(converted); in the except branch
\* pyperclip.copy(converted) and send_ctrl_v()
HandleInject(w) ==
  /\ wk[w].pc = "inject"
  /\ \E res \in InjectOutcomes :
       IF res = "sent"
       THEN /\ wk' = [wk EXCEPT ![w].pc = "finally", ![w].outcome = "injected",
                                ![w].ev = Append(@, Ev("inject", {}, wk[w].converted))]
            /\ doc' = IF fg = "target" THEN doc \o wk[w].converted ELSE doc
            /\ UNCHANGED <<clipboard, clipSeq>>
       ELSE IF res = "raised"
       THEN /\ wk' = [wk EXCEPT ![w].pc = "finally", ![w].outcome = "pasted",
                                ![w].ev = Append(@, Ev("ctrl_v", {}, wk[w].converted))]
            /\ clipboard' = wk[w].converted
            /\ clipSeq' = clipSeq + 1
            /\ doc' = IF fg = "target" THEN doc \o wk[w].converted ELSE doc
       ELSE /\ wk' = [wk EXCEPT ![w].pc = "finally", ![w].outcome = "not_injected"]
            /\ UNCHANGED <<doc, clipboard, clipSeq>>
  /\ UNCHANGED <<enabled, handler_lock, trigVars, fg, keysDown, copyPending, loopSide>>

\* the left-side key of each released key's modifier
to_press(vks) ==
  {k \in {VK_LCONTROL, VK_LMENU, VK_LSHIFT, VK_LWIN} :
     \/ k = VK_LCONTROL /\ vks \cap {VK_LCONTROL, VK_RCONTROL} # {}
     \/ k = VK_LMENU /\ vks \cap {VK_LMENU, VK_RMENU} # {}
     \/ k = VK_LSHIFT /\ vks \cap {VK_LSHIFT, VK_RSHIFT} # {}
     \/ k = VK_LWIN /\ vks \cap {VK_LWIN, VK_RWIN} # {}}

\* a restore that presses nothing
RestoreNothing(vks) == {}

\* _restore_modifiers_from_vks: the keys it presses
RestoreKeys(vks) == to_press(vks)

\* the finally block of the handler
HandleFinally(w) ==
  /\ wk[w].pc = "finally"
  /\ LET keys == RestoreKeys(wk[w].pressed_vks) IN
     IF wk[w].pressed_vks # {}
     THEN /\ wk' = [wk EXCEPT ![w].pc = "unlock", ![w].ev = Append(@, Ev("restore", keys, <<>>))]
          /\ keysDown' = keysDown \cup keys
     ELSE /\ wk' = [wk EXCEPT ![w].pc = "unlock"]
          /\ UNCHANGED keysDown
  /\ UNCHANGED <<enabled, handler_lock, trigVars, clipboard, clipSeq, fg, doc,
                 copyPending, loopSide>>

\* a _worker that releases the lock after a completed replacement only
WorkerReleaseOnSuccess(w) ==
  /\ wk[w].pc = "unlock"
  /\ handler_lock' = IF wk[w].outcome = "injected" THEN FALSE ELSE handler_lock
  /\ wk' = [wk EXCEPT ![w].pc = "done"]
  /\ UNCHANGED <<enabled, trigVars, clipboard, clipSeq, fg, keysDown, doc, copyPending, loopSide>>

\* the finally block of _worker: _handler_lock.release()
WorkerRelease(w) ==
  /\ wk[w].pc = "unlock"
  /\ handler_lock' = FALSE
  /\ wk' = [wk EXCEPT ![w].pc = "done"]
  /\ UNCHANGED <<enabled, trigVars, clipboard, clipSeq, fg, keysDown, doc, copyPending, loopSide>>

\* the clipboard text a cycle starts from: "o"
UserClip == <<111>>

\* the worker thread ends and its invocation record is dropped.  The
\* environment of the cycle is forgotten with it: the next hotkey press
\* chooses window, selection and keys afresh, the clipboard holds the user's
\* text again, and sequence numbers, which are compared only within a
\* cycle, are counted from 0 again.
WorkerExit(w) ==
  /\ wk[w].pc = "done"
  /\ wk' = [wk EXCEPT ![w] = IdleWorker]
  /\ IF \A v \in Workers \ {w} : ~InFlight(v)
     THEN /\ fg' = "target" /\ keysDown' = {} /\ doc' = <<>> /\ copyPending' = FALSE
          /\ clipboard' = UserClip /\ clipSeq' = 0
     ELSE UNCHANGED <<fg, keysDown, doc, copyPending, clipboard, clipSeq>>
  /\ UNCHANGED <<enabled, handler_lock, trigVars, loopSide>>

----------------------------------------------------------------------------
\* Environment of the transform dispatch.

\* the clock advances.  It is advanced only while a trigger can still be
\* dispatched and the debounce comparison of the next trigger, or its distance
\* to the last trigger, can still change.
Tick ==
  /\ now < MaxTime
  /\ nTrig < MaxTriggers
  /\ \/ now - last_translate_ts < TRANSLATE_DEBOUNCE_SEC
     \/ now - lastTrig.t < TRANSLATE_DEBOUNCE_SEC
  /\ now' = now + 1
  /\ UNCHANGED <<enabled, last_translate_ts, handler_lock, wk, prevTrig, lastTrig,
                 lastSpawnTs, nTrig, clipboard, clipSeq, fg, keysDown, doc, copyPending,
                 loopSide>>

\* config.set_enabled, called by the tray thread
set_enabled ==
  /\ enabled' = ~enabled
  /\ UNCHANGED <<dispatchVars, loopSide>>

\* the user brings another window to the foreground, or the target back
ForegroundSwitch ==
  /\ \E w \in Workers : InFlight(w)
  /\ fg' = IF fg = "target" THEN "other" ELSE "target"
  /\ wk' = [w \in Workers |-> IF InCapture(w) THEN [wk[w] EXCEPT !.fgChanged = TRUE]
                                ELSE wk[w]]
  /\ UNCHANGED <<enabled, handler_lock, trigVars, clipboard, clipSeq, keysDown, doc,
                 copyPending, loopSide>>

\* the target window acts on a copy keystroke: its selection goes to the clipboard
AppCopy ==
  /\ copyPending
  /\ doc # <<>>
  /\ clipboard' = doc
  /\ clipSeq' = clipSeq + 1
  /\ copyPending' = FALSE
  /\ UNCHANGED <<enabled, handler_lock, wk, trigVars, fg, keysDown, doc, loopSide>>

----------------------------------------------------------------------------
\* Hotkey specs: resolution of a stored spec to the (mask, vk) pair that
\* RegisterHotKey takes.

\* a stored spec: the set of modifier names and the key name
HotkeySpec(mods, key) == [modifiers |-> mods, key |-> key]

SpecF10 == HotkeySpec({}, "F10")

SpecF4 == HotkeySpec({}, "F4")

SpecCtrlShiftU == HotkeySpec({"CTRL", "SHIFT"}, "U")

\* what the capture dialog yields for the ";" and "," keys: vk_to_key_name
\* names a key outside its tables VK_<hex>
SpecSemicolon == HotkeySpec({}, "VK_BA")

SpecComma == HotkeySpec({}, "VK_BC")

\* VK_MAP in the order of the dictionary literal (winapi.py, 127-133)
VK_MAP ==
  <<
    <<"F1", 112>>, <<"F2", 113>>, <<"F3", 114>>, <<"F4", 115>>, <<"F5", 116>>, <<"F6", 117>>,
    <<"F7", 118>>, <<"F8", 119>>, <<"F9", 120>>, <<"F10", 121>>, <<"F11", 122>>, <<"F12", 123>>,
    <<"ESC", 27>>, <<"TAB", 9>>, <<"ENTER", 13>>, <<"RETURN", 13>>, <<"SPACE", 32>>, <<"INSERT", 45>>,
    <<"DELETE", 46>>, <<"HOME", 36>>, <<"END", 35>>, <<"PGUP", 33>>, <<"PGDN", 34>>, <<"LEFT", 37>>,
    <<"UP", 38>>, <<"RIGHT", 39>>, <<"DOWN", 40>>
  >>

\* VK_MAP[name]
NamedKeys == [n \in { VK_MAP[i][1] : i \in DOMAIN VK_MAP } |->
  LET i == CHOOSE k \in DOMAIN VK_MAP : VK_MAP[k][1] = n IN VK_MAP[i][2]]

\* the one-character names "0".."9", "A".."Z": chr(0x30..0x39), chr(0x41..0x5A)
KeyChars ==
  <<
    "0", "1", "2", "3", "4", "5", "6", "7", "8", "9", "A", "B",
    "C", "D", "E", "F", "G", "H", "I", "J", "K", "L", "M", "N",
    "O", "P", "Q", "R", "S", "T", "U", "V", "W", "X", "Y", "Z"
  >>

\* chr(vk) of a digit or letter key
chr(vk) == KeyChars[IF vk <= 57 THEN vk - 47 ELSE vk - 54]

\* ord(name) of a one-character name of a digit or letter
LetterKeys == [n \in { KeyChars[i] : i \in DOMAIN KeyChars } |->
  LET i == CHOOSE k \in DOMAIN KeyChars : KeyChars[k] = n
  IN  IF i <= 10 THEN i + 47 ELSE i + 54]

HexDigits == <<"0", "1", "2", "3", "4", "5", "6", "7", "8", "9", "A", "B", "C", "D", "E", "F">>

\* f"VK_{vk:02X}" for a code of one byte
VkHexName(vk) == "VK_" \o HexDigits[(vk \div 16) + 1] \o HexDigits[(vk % 16) + 1]

\* the attributes of win32con named VK_ and two hexadecimal digits: VK_F1
\* (0x70) to VK_F9 (0x78)
Win32conVk == [n \in { VkHexName(v) : v \in 241..249 } |->
  LET v == CHOOSE k \in 241..249 : VkHexName(k) = n IN v - 129]

\* names starting with VK_ that win32con does not define
UnknownVkNames == { VkHexName(v) : v \in 0..255 } \ DOMAIN Win32conVk

key_name_to_vk(name) ==
  IF name = "" THEN NamedKeys["F10"]
  ELSE IF name \in DOMAIN NamedKeys THEN NamedKeys[name]
  ELSE IF name \in DOMAIN LetterKeys THEN LetterKeys[name]
  ELSE IF name \in DOMAIN Win32conVk THEN Win32conVk[name]   \* getattr(win32con, n, 0)
  ELSE IF name \in UnknownVkNames THEN 0
  ELSE NamedKeys["F10"]

modifiers_list_to_mask(mods) ==
    (IF "ALT" \in mods THEN MOD_ALT ELSE 0)
  + (IF "CTRL" \in mods THEN MOD_CONTROL ELSE 0)
  + (IF "SHIFT" \in mods THEN MOD_SHIFT ELSE 0)
  + (IF "WIN" \in mods THEN MOD_WIN ELSE 0)

hotkey_tuple_from_config(spec) ==
  <<modifiers_list_to_mask(spec.modifiers), key_name_to_vk(spec.key)>>

\* a conflict check that never reports a conflict
NeverConflict(a, b) == FALSE

\* hotkeys_conflict(mask1, vk1, mask2, vk2)
hotkeys_conflict(a, b) == a[1] = b[1] /\ a[2] = b[2]

\* the name-level comparison of the tray and capture threads
hotkey_lists_equal(a, b) == a.modifiers = b.modifiers /\ a.key = b.key

\* config.read_exit_hotkey / read_translate_hotkey / read_case_hotkey
read_exit_hotkey == cfg["exit"]

read_translate_hotkey == cfg["translate"]

read_case_hotkey == cfg["case"]

read_hotkey(slot) ==
  IF slot = "exit" THEN read_exit_hotkey
  ELSE IF slot = "translate" THEN read_translate_hotkey
  ELSE read_case_hotkey

\* the stored configuration of a fresh installation
DefaultCfg == [s \in Slots |->
  IF s = "exit" THEN SpecF10 ELSE IF s = "translate" THEN SpecF4 ELSE SpecCtrlShiftU]

\* the OS hotkey table once the three defaults are registered
DefaultRegistered == [s \in Slots |-> hotkey_tuple_from_config(DefaultCfg[s])]

----------------------------------------------------------------------------
\* The OS hotkey table of the process.

\* an unregister that takes the exit slot along when its own slot is empty
UnregisterSlotOrExit(table, slot) ==
  IF table[slot] = NotRegistered THEN [table EXCEPT !["exit"] = NotRegistered]
  ELSE [table EXCEPT ![slot] = NotRegistered]

\* user32.UnregisterHotKey(None, id)
UnregisterHotKey(table, slot) == [table EXCEPT ![slot] = NotRegistered]

\* user32.RegisterHotKey(None, id, mask, vk) returns nonzero.  The OS refuses
\* a combination that any hotkey already holds: one of this process (the
\* table) or of another process (osFree = FALSE).
RegisterHotKey(table, combo, osFree) ==
  osFree /\ \A s \in Slots : table[s] # combo

----------------------------------------------------------------------------
\* update_*_hotkey_in_thread: unregister the slot, resolve its stored spec,
\* compare with the stored specs of the two siblings, register.

\* the siblings in the order the function compares them
SiblingOrder(slot) ==
  IF slot = "exit" THEN <<"translate", "case">>
  ELSE IF slot = "translate" THEN <<"exit", "case">>
  ELSE <<"translate", "exit">>

\* a function that compares with the first sibling only
FirstSiblingOnly(slot) ==
  IF hotkeys_conflict(hotkey_tuple_from_config(read_hotkey(slot)),
                      hotkey_tuple_from_config(read_hotkey(SiblingOrder(slot)[1])))
  THEN SiblingOrder(slot)[1] ELSE "none"

\* the sibling whose stored spec resolves to the slot's combination and that
\* the function finds first, or "none"
ConflictingSibling(slot) ==
  LET combo == hotkey_tuple_from_config(read_hotkey(slot))
      sib == SiblingOrder(slot)
      hit(i) == hotkeys_conflict(combo, hotkey_tuple_from_config(read_hotkey(sib[i])))
  IN  IF hit(1) THEN sib[1] ELSE IF hit(2) THEN sib[2] ELSE "none"

\* history: every sibling whose stored spec resolves to the slot's combination
EqualSiblings(slot) ==
  {a \in Slots \ {slot} :
     hotkey_tuple_from_config(cfg[a]) = hotkey_tuple_from_config(cfg[slot])}

\* history record of an update_*_hotkey_in_thread call: the slot, how it
\* ended, the sibling reported, the siblings with an equal resolved spec and
\* those of them registered at the call, what the slot holds after the call,
\* whether every sibling's registration is as it was before the call, and,
\* in the behaviours whose scenario keeps it, the slots whose own most recent
\* call ended in Conflict, each with the sibling reported and the combination
\* refused
NoAttempt ==
  [slot |-> "none", outcome |-> "none", sibling |-> "none", equalTo |-> {},
   equalRegistered |-> {}, slotAfter |-> NotRegistered, siblingsKept |-> TRUE,
   rejected |-> {}]

\* a (re)registration that releases the previous registration only when the
\* new one succeeded
UpdateReleasingOnSuccess(slot, caller, osFree) ==
  LET combo == hotkey_tuple_from_config(read_hotkey(slot))
      sibling == ConflictingSibling(slot)
      out == IF slot = "translate" /\ ~enabled THEN "disabled"
             ELSE IF sibling # "none" THEN "conflict"
             ELSE IF RegisterHotKey(UnregisterHotKey(registered, slot), combo, osFree)
                  THEN "registered"
             ELSE "os_refused"
      after == IF out = "registered" THEN [registered EXCEPT ![slot] = combo] ELSE registered
  IN  /\ registered' = after
      /\ regCallers' = regCallers \cup {caller}
      /\ lastAttempt' = [slot |-> slot, outcome |-> out,
                         sibling |-> IF out = "conflict" THEN sibling ELSE "none",
                         equalTo |-> EqualSiblings(slot),
                         equalRegistered |->
                           {a \in EqualSiblings(slot) : registered[a] # NotRegistered},
                         slotAfter |-> after[slot],
                         siblingsKept |-> \A a \in Slots \ {slot} : after[a] = registered[a],
                         rejected |->
                           IF scenario.keepRejected
                           THEN {p \in lastAttempt.rejected : p[1] # slot}
                                  \cup (IF out = "conflict" THEN {<<slot, sibling, combo>>}
                                        ELSE {})
                           ELSE {}]

UpdateInThread(slot, caller, osFree) ==
  LET combo == hotkey_tuple_from_config(read_hotkey(slot))
      table == UnregisterHotKey(registered, slot)
      sibling == ConflictingSibling(slot)
      out == IF slot = "translate" /\ ~enabled THEN "disabled"
             ELSE IF sibling # "none" THEN "conflict"
             ELSE IF RegisterHotKey(table, combo, osFree) THEN "registered"
             ELSE "os_refused"
      after == IF out = "registered" THEN [table EXCEPT ![slot] = combo] ELSE table
  IN  /\ registered' = after
      /\ regCallers' = regCallers \cup {caller}
      /\ lastAttempt' = [slot |-> slot, outcome |-> out,
                         sibling |-> IF out = "conflict" THEN sibling ELSE "none",
                         equalTo |-> EqualSiblings(slot),
                         equalRegistered |->
                           {a \in EqualSiblings(slot) : registered[a] # NotRegistered},
                         slotAfter |-> after[slot],
                         siblingsKept |-> \A a \in Slots \ {slot} : after[a] = registered[a],
                         rejected |->
                           IF scenario.keepRejected
                           THEN {p \in lastAttempt.rejected : p[1] # slot}
                                  \cup (IF out = "conflict" THEN {<<slot, sibling, combo>>}
                                        ELSE {})
                           ELSE {}]

update_exit_hotkey_in_thread(caller, osFree) == UpdateInThread("exit", caller, osFree)

update_translate_hotkey_in_thread(caller, osFree) == UpdateInThread("translate", caller, osFree)

update_case_hotkey_in_thread(caller, osFree) == UpdateInThread("case", caller, osFree)

----------------------------------------------------------------------------
\* Messages to the dispatch loop.

RegistryMessages ==
  {"MSG_REGISTER_TRANSLATE", "MSG_UNREGISTER_TRANSLATE", "MSG_UPDATE_EXIT_HOTKEY",
   "MSG_UPDATE_TRANSLATE_HOTKEY", "MSG_REGISTER_CASE", "MSG_UNREGISTER_CASE",
   "MSG_UPDATE_CASE_HOTKEY"}

\* the branch of the message loop for one MSG_*, run by thread `caller`
HandleMessage(msg, caller) ==
  \E osFree \in BOOLEAN :
    IF msg \in {"MSG_REGISTER_TRANSLATE", "MSG_UPDATE_TRANSLATE_HOTKEY"}
    THEN update_translate_hotkey_in_thread(caller, osFree)
    ELSE IF msg \in {"MSG_REGISTER_CASE", "MSG_UPDATE_CASE_HOTKEY"}
    THEN update_case_hotkey_in_thread(caller, osFree)
    ELSE IF msg = "MSG_UPDATE_EXIT_HOTKEY"
    THEN update_exit_hotkey_in_thread(caller, osFree)
    ELSE /\ registered' = UnregisterHotKey(registered,
                            IF msg = "MSG_UNREGISTER_TRANSLATE" THEN "translate" ELSE "case")
         /\ regCallers' = regCallers \cup {caller}
         /\ UNCHANGED lastAttempt

\* PostThreadMessageW succeeds: the thread id is published, the thread is
\* alive and its queue has room
CanPost == threadId /\ loopPc # "exited" /\ Len(queue) < MaxQueue

\* a post_* request that skips _post_thread_message_check_thread
PostUnchecked(msg) ==
  IF loopPc # "exited" /\ Len(queue) < MaxQueue
  THEN [ok |-> TRUE, queue |-> Append(queue, msg)]
  ELSE [ok |-> FALSE, queue |-> queue]

\* post_register_translate / post_register_case / post_update_*_hotkey: what
\* the call returns and the loop thread's queue after it
post_request_outcome(msg) ==
  IF ~threadId THEN [ok |-> FALSE, queue |-> queue]
  ELSE IF CanPost THEN [ok |-> TRUE, queue |-> Append(queue, msg)]
  ELSE [ok |-> FALSE, queue |-> queue]

NoPost == [msg |-> "none", ok |-> FALSE, turn |-> FALSE]

\* one of the six post_* functions called by a thread of the settings
\* surface, in any state of the loop
post_request ==
  \E msg \in RegistryMessages :
    LET out == post_request_outcome(msg)
    IN  /\ queue' = out.queue
        /\ lastPost' = [msg |-> msg, ok |-> out.ok, turn |-> ~lastPost.turn]
        /\ UNCHANGED <<enabled, loopPc, cfg, threadId, registered, exit_event,
                       lastAttempt, regCallers, tray, cap, scenario, dispatchVars,
                       exitVars, lastUnreg, hookVars, textVars>>

\* a request carried out at once by the thread that makes it
ExecuteInCaller(thread, msg) ==
  /\ HandleMessage(msg, thread)
  /\ UNCHANGED queue

\* post_register_translate / post_register_case / post_update_*_hotkey,
\* called by `thread`
Post(thread, msg) ==
  /\ queue' = IF CanPost THEN Append(queue, msg) ELSE queue
  /\ UNCHANGED <<registered, lastAttempt, regCallers>>

UpdateMessage(slot) ==
  IF slot = "exit" THEN "MSG_UPDATE_EXIT_HOTKEY"
  ELSE IF slot = "translate" THEN "MSG_UPDATE_TRANSLATE_HOTKEY"
  ELSE "MSG_UPDATE_CASE_HOTKEY"

----------------------------------------------------------------------------
\* win_hotkey_loop.

loopFrame == <<scenario, dispatchVars, exitVars, lastUnreg, hookVars, textVars, lastPost>>

\* the thread starts and publishes its id
LoopStart ==
  /\ loopPc = "init"
  /\ threadId' = TRUE
  /\ loopPc' = "startup_exit"
  /\ UNCHANGED <<enabled, cfg, queue, registered, exit_event, lastAttempt, regCallers,
                 tray, cap, loopFrame>>

\* the three initial registrations, in the order exit, translate, case
LoopStartup ==
  /\ loopPc \in {"startup_exit", "startup_translate", "startup_case"}
  /\ \E osFree \in BOOLEAN :
       IF loopPc = "startup_exit"
       THEN update_exit_hotkey_in_thread("loop", osFree) /\ loopPc' = "startup_translate"
       ELSE IF loopPc = "startup_translate"
       THEN update_translate_hotkey_in_thread("loop", osFree) /\ loopPc' = "startup_case"
       ELSE update_case_hotkey_in_thread("loop", osFree) /\ loopPc' = "running"
  /\ UNCHANGED <<enabled, cfg, threadId, queue, exit_event, tray, cap, loopFrame>>

UnregisterMessages == {"MSG_UNREGISTER_TRANSLATE", "MSG_UNREGISTER_CASE"}

NoUnreg == [slot |-> "none", was |-> FALSE]

\* GetMessageW returns one of the MSG_* requests
LoopMessage ==
  /\ loopPc = "running"
  /\ queue # <<>>
  /\ Head(queue) \in RegistryMessages
  /\ HandleMessage(Head(queue), "loop")
  /\ queue' = Tail(queue)
  /\ lastUnreg' = IF Head(queue) \in UnregisterMessages
                  THEN LET slot == IF Head(queue) = "MSG_UNREGISTER_TRANSLATE"
                                   THEN "translate" ELSE "case"
                       IN  [slot |-> slot, was |-> registered[slot] # NotRegistered]
                  ELSE NoUnreg
  /\ UNCHANGED <<enabled, cfg, threadId, loopPc, exit_event, tray, cap, scenario,
                 dispatchVars, exitVars, hookVars, textVars, lastPost>>

\* GetMessageW returns WM_HOTKEY with the exit id: exit_event.set(),
\* _invoke_exit_handlers(), the three UnregisterHotKey calls, break; then the
\* finally block.  The thread ends and its queue with it.
LoopExitHotkey ==
  /\ loopPc = "running"
  /\ queue # <<>>
  /\ Head(queue) = "WM_HOTKEY_EXIT"
  /\ LoopCleanupAfter(_invoke_exit_handlers(exit_calls, "loop"))
  /\ lastExit' = [why |-> "hotkey", pending |-> PendingTriggers(Tail(queue))]
  /\ loopPc' = "exited"
  /\ queue' = <<>>
  /\ UNCHANGED <<enabled, cfg, threadId, lastAttempt, tray, cap, scenario, dispatchVars,
                 exit_handlers, lastUnreg, hookVars, textVars, lastPost>>

\* the user presses the registered exit combination; the OS posts WM_HOTKEY
PressExitHotkey ==
  /\ loopPc = "running"
  /\ registered["exit"] # NotRegistered
  /\ Len(queue) < MaxQueue
  /\ queue' = Append(queue, "WM_HOTKEY_EXIT")
  /\ UNCHANGED <<enabled, cfg, threadId, loopPc, registered, exit_event, lastAttempt,
                 regCallers, tray, cap, loopFrame>>

\* the user presses a registered combination; the OS posts WM_HOTKEY to the
\* thread that registered it
HotkeyMessage(slot) ==
  IF slot = "exit" THEN "WM_HOTKEY_EXIT"
  ELSE IF slot = "translate" THEN "WM_HOTKEY_TRANSLATE"
  ELSE "WM_HOTKEY_CASE"

PressHotkey ==
  /\ loopPc = "running"
  /\ Len(queue) < MaxPending
  /\ \E slot \in Slots :
       /\ registered[slot] # NotRegistered
       /\ slot # "exit" => nTrig + PendingTriggers(queue) < MaxTriggers
       /\ queue' = Append(queue, HotkeyMessage(slot))
  /\ UNCHANGED <<enabled, cfg, threadId, loopPc, registered, exit_event, lastAttempt,
                 regCallers, tray, cap, loopFrame>>

\* GetMessageW returns WM_HOTKEY with the translate or case id
LoopHotkey ==
  /\ queue # <<>>
  /\ Head(queue) \in {"WM_HOTKEY_TRANSLATE", "WM_HOTKEY_CASE"}
  /\ InvokerCall(IF Head(queue) = "WM_HOTKEY_TRANSLATE" THEN "translate" ELSE "case")
  /\ queue' = IF loopPc' = "exited" THEN <<>> ELSE Tail(queue)

\* the loop ends for another reason: GetMessageW returns 0 (WM_QUIT) or -1,
\* or an exception leaves the loop; the finally block runs
LoopBreak ==
  /\ loopPc = "running"
  /\ \E why \in {"quit", "error", "fatal"} :
       lastExit' = [why |-> why, pending |-> PendingTriggers(queue)]
  /\ LoopCleanup
  /\ loopPc' = "exited"
  /\ queue' = <<>>
  /\ UNCHANGED <<enabled, cfg, threadId, lastAttempt, tray, cap, scenario, dispatchVars,
                 exit_handlers, lastUnreg, hookVars, textVars, lastPost>>

\* register_exit_handler(cb), called while the application starts or runs
register_exit_handler ==
  /\ loopPc # "exited"
  /\ \E cb \in Callbacks : exit_handlers' = register_exit_handler_list(exit_handlers, cb)
  /\ UNCHANGED <<enabled, loopPc, scenario, dispatchVars, registryVars, exit_calls, lastExit,
                 lastUnreg, hookVars, textVars, lastPost>>

----------------------------------------------------------------------------
\* The tray thread and the capture thread.

IdleThread == [pc |-> "idle", target |-> "none", cand |-> SpecF10, new_state |-> FALSE]

\* the menu entries the user picks: F10 for exit, F4 for translate
Presets(slot) ==
  IF slot = "exit" THEN {SpecF10}
  ELSE IF slot = "translate" THEN {SpecF4}
  ELSE {}

\* the combination the user enters in the capture dialog: the "," key
Captured == {SpecComma}

\* the slots the user opens the capture dialog for
CaptureTargets == {"translate", "case"}

\* toggle_enabled: set_enabled(new_state), then the two posts
toggle_enabled ==
  /\ \/ /\ tray.pc = "idle"
        /\ enabled' = ~enabled
        /\ tray' = [tray EXCEPT !.pc = "toggle_translate", !.new_state = ~enabled]
        /\ UNCHANGED <<queue, registered, lastAttempt, regCallers>>
     \/ /\ tray.pc = "toggle_translate"
        /\ Post("tray", IF tray.new_state THEN "MSG_REGISTER_TRANSLATE"
                        ELSE "MSG_UNREGISTER_TRANSLATE")
        /\ tray' = [tray EXCEPT !.pc = "toggle_case"]
        /\ UNCHANGED enabled
     \/ /\ tray.pc = "toggle_case"
        /\ Post("tray", IF tray.new_state THEN "MSG_REGISTER_CASE" ELSE "MSG_UNREGISTER_CASE")
        /\ tray' = IdleThread
        /\ UNCHANGED enabled
  /\ UNCHANGED <<cfg, threadId, loopPc, exit_event, cap, loopFrame>>

\* a check that never finds a sibling with the candidate's spec
NoNameConflict(target, cand) == FALSE

\* the name-level check against the stored specs of the two siblings
NameConflict(target, cand) ==
  \E a \in Slots \ {target} : hotkey_lists_equal(cand, read_hotkey(a))

\* the check of a new combination: the thread's record after it
Checked(target, cand) ==
  IF NameConflict(target, cand) THEN IdleThread
  ELSE [IdleThread EXCEPT !.pc = "write", !.target = target, !.cand = cand]

\* tray._set_hotkey_and_apply: the checks, then the write and the post
_set_hotkey_and_apply ==
  /\ \/ /\ tray.pc = "idle"
        /\ \E target \in Slots : \E cand \in Presets(target) : tray' = Checked(target, cand)
        /\ UNCHANGED <<cfg, queue, registered, lastAttempt, regCallers>>
     \/ /\ tray.pc = "write"
        /\ tray' = IdleThread
        /\ \E ok \in BOOLEAN :
             IF ok
             THEN /\ cfg' = [cfg EXCEPT ![tray.target] = tray.cand]
                  /\ Post("tray", UpdateMessage(tray.target))
             ELSE UNCHANGED <<cfg, queue, registered, lastAttempt, regCallers>>
  /\ UNCHANGED <<enabled, threadId, loopPc, exit_event, cap, loopFrame>>

\* capture_hotkey_and_apply_via_thread: the same steps on the capture thread
capture_hotkey_and_apply_via_thread ==
  /\ \/ /\ cap.pc = "idle"
        /\ \E target \in CaptureTargets : \E cand \in Captured : cap' = Checked(target, cand)
        /\ UNCHANGED <<cfg, queue, registered, lastAttempt, regCallers>>
     \/ /\ cap.pc = "write"
        /\ cap' = IdleThread
        /\ \E ok \in BOOLEAN :
             IF ok
             THEN /\ cfg' = [cfg EXCEPT ![cap.target] = cap.cand]
                  /\ Post("capture", UpdateMessage(cap.target))
             ELSE UNCHANGED <<cfg, queue, registered, lastAttempt, regCallers>>
  /\ UNCHANGED <<enabled, threadId, loopPc, exit_event, tray, loopFrame>>


----------------------------------------------------------------------------
\* capture_hotkey_via_hook_blocking: the keyboard listener of the capture
\* dialog, and the _runner that applies what it returns.

\* result = None
NoneResult == HotkeySpec({}, "None")

\* result = {"modifiers": [], "key": ""}
InitialResult == HotkeySpec({}, "")

IdleFlow ==
  [pc |-> "idle", target |-> "none", timeout |-> FALSE, hook_handle |-> FALSE,
   tk_root |-> FALSE, result |-> InitialResult, done_event |-> FALSE,
   nKeys |-> 0, escSeen |-> FALSE, path |-> "none", committed |-> FALSE,
   first |-> InitialResult]

\* the keys the user presses in the dialog: Escape, left Shift, ","
HookKeys == {VK_ESCAPE, VK_LSHIFT, 188}

_vk_is_modifier(vk) == vk \in {VK_CONTROL, VK_MENU, VK_SHIFT} \cup ModifierVKs

\* _current_modifiers_list(), from the keys that are down
_current_modifiers_list(down) ==
  {m \in {"CTRL", "ALT", "SHIFT", "WIN"} :
     \/ m = "CTRL" /\ down \cap {VK_LCONTROL, VK_RCONTROL} # {}
     \/ m = "ALT" /\ down \cap {VK_LMENU, VK_RMENU} # {}
     \/ m = "SHIFT" /\ down \cap {VK_LSHIFT, VK_RSHIFT} # {}
     \/ m = "WIN" /\ down \cap {VK_LWIN, VK_RWIN} # {}}

\* vk_to_key_name: the first name of VK_MAP with this code, the character of
\* a letter or digit key, else VK_<two hex digits>
vk_to_key_name(vk) ==
  LET hits == { i \in DOMAIN VK_MAP : VK_MAP[i][2] = vk }
  IN  IF hits # {} THEN VK_MAP[CHOOSE i \in hits : \A k \in hits : i <= k][1]
      ELSE IF vk >= 65 /\ vk <= 90 THEN chr(vk)
      ELSE IF vk >= 48 /\ vk <= 57 THEN chr(vk)
      ELSE IF vk = 32 THEN "SPACE"
      ELSE IF vk = 13 THEN "ENTER"
      ELSE VkHexName(vk)

\* a finally block that removes the listener only when a combination was chosen
UnhookOnSuccessOnly(flow, hooks) ==
  IF flow.hook_handle /\ flow.result # NoneResult THEN hooks - 1 ELSE hooks

\* the finally block: "if hook_handle: UnhookWindowsHookEx(hook_handle)"
Unhooked(flow, hooks) == IF flow.hook_handle THEN hooks - 1 ELSE hooks

hookFrame ==
  <<enabled, loopPc, scenario, dispatchVars, registryVars, exitVars, lastUnreg, textVars, lastPost>>

\* the capture thread starts and calls capture_hotkey_via_hook_blocking
CaptureBegin ==
  /\ hookFlow.pc = "idle"
  /\ \E target \in CaptureTargets, timeout \in BOOLEAN :
       hookFlow' = [IdleFlow EXCEPT !.pc = "install", !.target = target, !.timeout = timeout]
  /\ UNCHANGED <<osHooks, hookFrame>>

\* SetWindowsHookExW, twice if needed; a failure returns None through finally
HookInstall ==
  /\ hookFlow.pc = "install"
  /\ \E ok \in BOOLEAN :
       IF ok
       THEN /\ osHooks' = osHooks + 1
            /\ hookFlow' = [hookFlow EXCEPT !.pc = "dialog", !.hook_handle = TRUE]
       ELSE /\ hookFlow' = [hookFlow EXCEPT !.pc = "finally", !.result = NoneResult,
                                            !.path = "nohook"]
            /\ UNCHANGED osHooks
  /\ UNCHANGED hookFrame

\* the prompt window; without Tk the loop sleeps instead
DialogCreate ==
  /\ hookFlow.pc = "dialog"
  /\ \E tkOk \in BOOLEAN : hookFlow' = [hookFlow EXCEPT !.pc = "loop_check", !.tk_root = tkOk]
  /\ UNCHANGED <<osHooks, hookFrame>>

\* the head of the loop: done_event, then the timeout
HookLoopCheck ==
  /\ hookFlow.pc = "loop_check"
  /\ IF hookFlow.done_event
     THEN hookFlow' = [hookFlow EXCEPT !.pc = "finally"]
     ELSE \/ /\ hookFlow.timeout
             /\ hookFlow' = [hookFlow EXCEPT !.pc = "finally", !.result = NoneResult,
                                             !.path = "timeout"]
          \/ hookFlow' = [hookFlow EXCEPT !.pc = "loop_pump"]
  /\ UNCHANGED <<osHooks, hookFrame>>

\* _low_level_proc: the listener sees a key-down while the thread pumps
\* messages (PeekMessageW, DispatchMessageW, tk_root.update())
HookKeyDown ==
  /\ hookFlow.pc = "loop_pump"
  /\ hookFlow.hook_handle
  /\ hookFlow.nKeys < MaxKeys
  /\ \E vk \in HookKeys :
       IF vk = VK_ESCAPE
       THEN /\ hookFlow' = [hookFlow EXCEPT !.result = NoneResult, !.done_event = TRUE,
                                            !.nKeys = @ + 1, !.escSeen = TRUE,
                                            !.path = "escape"]
            /\ UNCHANGED keysDown
       ELSE IF _vk_is_modifier(vk)
       THEN /\ hookFlow' = [hookFlow EXCEPT !.nKeys = @ + 1]
            /\ keysDown' = keysDown \cup {vk}
       ELSE /\ hookFlow' = [hookFlow EXCEPT
                              !.result = HotkeySpec(_current_modifiers_list(keysDown),
                                                    vk_to_key_name(vk)),
                              !.done_event = TRUE, !.nKeys = @ + 1, !.path = "success",
                              !.first = IF @ = InitialResult
                                        THEN HotkeySpec(_current_modifiers_list(keysDown),
                                                        vk_to_key_name(vk))
                                        ELSE @]
            /\ UNCHANGED keysDown
  /\ UNCHANGED <<osHooks, enabled, loopPc, scenario, registryVars, exitVars, lastUnreg,
                 now, last_translate_ts, handler_lock, wk, prevTrig, lastTrig, lastSpawnTs,
                 nTrig, clipboard, clipSeq, fg, doc, copyPending, textVars, lastPost>>

\* on_close: the user closes the prompt window
PromptClosed ==
  /\ hookFlow.pc = "loop_pump"
  /\ hookFlow.tk_root
  /\ hookFlow' = [hookFlow EXCEPT !.result = NoneResult, !.done_event = TRUE,
                                  !.tk_root = FALSE, !.path = "closed"]
  /\ UNCHANGED <<osHooks, hookFrame>>

\* the rest of a loop round; raised: an exception leaves the loop
HookPumpDone ==
  /\ hookFlow.pc = "loop_pump"
  /\ \E raised \in BOOLEAN :
       hookFlow' = IF raised
                   THEN [hookFlow EXCEPT !.pc = "finally", !.result = NoneResult,
                                         !.path = "exception"]
                   ELSE [hookFlow EXCEPT !.pc = "loop_check"]
  /\ UNCHANGED <<osHooks, hookFrame>>

\* the finally block and the return
HookFinally ==
  /\ hookFlow.pc = "finally"
  /\ osHooks' = Unhooked(hookFlow, osHooks)
  /\ hookFlow' = [hookFlow EXCEPT !.pc = "returned", !.tk_root = FALSE]
  /\ UNCHANGED hookFrame

\* _runner after the return: nothing for None, nothing for a combination a
\* sibling slot already has, else the write and the post
CaptureCommit ==
  /\ hookFlow.pc = "returned"
  /\ \E ok \in BOOLEAN :
       IF /\ hookFlow.result # NoneResult
          /\ ~NameConflict(hookFlow.target, hookFlow.result)
          /\ ok
       THEN /\ cfg' = [cfg EXCEPT ![hookFlow.target] = hookFlow.result]
            /\ Post("capture", UpdateMessage(hookFlow.target))
            /\ hookFlow' = [hookFlow EXCEPT !.pc = "idle", !.committed = TRUE]
       ELSE /\ hookFlow' = [hookFlow EXCEPT !.pc = "idle"]
            /\ UNCHANGED <<cfg, queue, registered, lastAttempt, regCallers>>
  /\ UNCHANGED <<osHooks, enabled, loopPc, scenario, dispatchVars, threadId, exit_event,
                 tray, cap, exitVars, lastUnreg, textVars, lastPost>>
----------------------------------------------------------------------------
\* Input injection: send_unicode_via_sendinput (winapi.py, 199-293).

\* a WORD field of a ctypes structure keeps the low 16 bits of what it is given
WORD(n) == n % 65536

\* KEYBDINPUT(wVk, wScan, dwFlags, 0, 0) as SendInput receives it
KEYBDINPUT(wVk, wScan, dwFlags) ==
  [wVk |-> WORD(wVk), wScan |-> WORD(wScan), dwFlags |-> dwFlags]

_append_vk_press(inputs, vk) ==
  inputs \o << KEYBDINPUT(vk, 0, 0), KEYBDINPUT(vk, 0, KEYEVENTF_KEYUP) >>

_append_shifted_enter(inputs) ==
  inputs \o << KEYBDINPUT(VK_SHIFT, 0, 0),
               KEYBDINPUT(VK_RETURN, 0, 0),
               KEYBDINPUT(VK_RETURN, 0, KEYEVENTF_KEYUP),
               KEYBDINPUT(VK_SHIFT, 0, KEYEVENTF_KEYUP) >>

\* the characters the loop tells apart: "\t", "\n", "\r"
TabCh == 9
LfCh == 10
CrCh == 13

\* the while loop over text, from (1-based) position i with the events so far
RECURSIVE InjectLoop(_, _, _)
InjectLoop(text, i, inputs) ==
  IF i > Len(text) THEN inputs
  ELSE LET ch == text[i]
       IN  IF ch = CrCh \/ ch = LfCh
           THEN LET skip == IF ch = CrCh /\ i + 1 <= Len(text) /\ text[i + 1] = LfCh
                            THEN 1 ELSE 0
                IN  InjectLoop(text, i + skip + 1, _append_shifted_enter(inputs))
           ELSE IF ch = TabCh
           THEN InjectLoop(text, i + 1, _append_vk_press(inputs, VK_TAB))
           ELSE InjectLoop(text, i + 1,
                  inputs \o << KEYBDINPUT(0, ch, KEYEVENTF_UNICODE),
                               KEYBDINPUT(0, ch, KEYEVENTF_UNICODE + KEYEVENTF_KEYUP) >>)

\* the batches the call hands to SendInput: none, or one with every event
send_unicode_via_sendinput(text) ==
  IF text = <<>> THEN <<>>
  ELSE LET inputs == InjectLoop(text, 1, <<>>)
       IN  IF Len(inputs) = 0 THEN <<>> ELSE << inputs >>

\* texts of at most n characters over an alphabet
RECURSIVE TextsUpTo(_, _)
TextsUpTo(chars, n) ==
  IF n = 0 THEN { <<>> }
  ELSE LET shorter == TextsUpTo(chars, n - 1)
       IN  shorter \cup { Append(t, c) : t \in shorter, c \in chars }

\* tab, LF, CR, "a", U+20AC (euro sign), U+1F600 (an emoji outside the BMP)
InjectChars == {TabCh, LfCh, CrCh, 97, 8364, 128512}

InjectTexts == TextsUpTo(InjectChars, MaxText)

IdleInject == [text |-> <<>>, pc |-> "idle", batches |-> <<>>]

\* send_unicode_via_sendinput(inj.text) runs to its return
InjectCall ==
  /\ inj.pc = "ready"
  /\ inj' = [inj EXCEPT !.pc = "done", !.batches = send_unicode_via_sendinput(inj.text)]
  /\ UNCHANGED <<enabled, loopPc, scenario, dispatchVars, registryVars, exitVars,
                 lastUnreg, hookVars, flip, lay, trip, edit, lastPost>>

----------------------------------------------------------------------------
\* Case flip: change_case_by_logic (transform.py, 100-119) called on its own.

\* "h", "H", "1", circled "a" and "A" (U+24D0, U+24B6), U+4E2D
FlipChars == {104, 72, 49, 9424, 9398, 20013}

\* "hello", "HELLO", "HellO"
FlipExamples ==
  { <<104, 101, 108, 108, 111>>, <<72, 69, 76, 76, 79>>, <<72, 101, 108, 108, 79>> }

FlipTexts == TextsUpTo(FlipChars, MaxText) \cup FlipExamples

IdleFlip == [text |-> <<>>, pc |-> "idle", result |-> <<>>]

\* change_case_by_logic(flip.text) returns
FlipCall ==
  /\ flip.pc = "ready"
  /\ flip' = [flip EXCEPT !.pc = "done", !.result = change_case_by_logic(flip.text)]
  /\ UNCHANGED <<enabled, loopPc, scenario, dispatchVars, registryVars, exitVars,
                 lastUnreg, hookVars, inj, lay, trip, edit, lastPost>>

----------------------------------------------------------------------------
\* Layout flip: transform_text_by_keyboard_layout_based_on_hkl (transform.py,
\* 51-98) called on its own.

\* "g", "H", Cyrillic "п", "." (in both tables), "1" (its own image), U+20AC
\* (in neither table)
LayoutChars == {103, 72, 1087, 46, 49, 8364}

\* "ghbdtn", "Руддщ"
LayoutExamples ==
  { <<103, 104, 98, 100, 116, 110>>, <<1056, 1091, 1076, 1076, 1097>> }

LayoutTexts == TextsUpTo(LayoutChars, MaxText) \cup LayoutExamples

\* layout ids: the language ids 0x0419 and 0x0409 alone, and the handles
\* GetKeyboardLayout returns for the Russian and the US layout, 0x04190419 and
\* 0x04090409
LayoutHKLs == {1049, 1033, 68748313, 67699721}

IdleLayout == [text |-> <<>>, hkl |-> 0, pc |-> "idle", result |-> <<>>]

\* transform_text_by_keyboard_layout_based_on_hkl(lay.text, lay.hkl) returns
LayoutCall ==
  /\ lay.pc = "ready"
  /\ lay' = [lay EXCEPT !.pc = "done",
             !.result = transform_text_by_keyboard_layout_based_on_hkl(lay.text, lay.hkl)]
  /\ UNCHANGED <<enabled, loopPc, scenario, dispatchVars, registryVars, exitVars,
                 lastUnreg, hookVars, inj, flip, trip, edit, lastPost>>

----------------------------------------------------------------------------
\* A settings change step by step: tray._set_hotkey_and_apply and the capture
\* thread's _runner read the first sibling's stored spec, then the second's,
\* then write_*_hotkey reads the whole JSON file, sets one key and writes the
\* whole file back; no lock is held between these steps.

EditThreads == {"tray", "capture"}

\* the slots whose write_*_hotkey is in config.py
EditTargets == {"exit", "translate"}

IdleEdit ==
  [pc |-> "idle", target |-> "none", cand |-> SpecF10, j |-> DefaultCfg, ok |-> FALSE]

\* the tray preset "Ctrl+Alt+T" of the translate slot (tray.py, 314)
SpecCtrlAltT == HotkeySpec({"CTRL", "ALT"}, "T")

\* the tray offers its presets; the capture dialog yields what the user
\* presses: Ctrl+Alt+T or the "," key
EditCandidates(t, target) ==
  IF t = "tray"
  THEN Presets(target) \cup (IF target = "translate" THEN {SpecCtrlAltT} ELSE {})
  ELSE {SpecCtrlAltT, SpecComma}

\* the menu entry is picked, or the capture dialog returns a combination
EditBegin(t) ==
  /\ edit[t].pc = "idle"
  /\ \E target \in EditTargets : \E cand \in EditCandidates(t, target) :
       edit' = [edit EXCEPT ![t] = [IdleEdit EXCEPT !.pc = "check1", !.target = target,
                                                       !.cand = cand]]
  /\ UNCHANGED <<cfg, queue, registered, lastAttempt, regCallers>>

\* read_*_hotkey() of one sibling and hotkey_lists_equal with the candidate
EditCheck(t) ==
  /\ edit[t].pc \in {"check1", "check2"}
  /\ LET sibling == SiblingOrder(edit[t].target)[IF edit[t].pc = "check1" THEN 1 ELSE 2]
     IN  edit' = [edit EXCEPT ![t].pc =
                    IF hotkey_lists_equal(edit[t].cand, read_hotkey(sibling)) THEN "refused"
                    ELSE IF edit[t].pc = "check1" THEN "check2" ELSE "read"]
  /\ UNCHANGED <<cfg, queue, registered, lastAttempt, regCallers>>

\* write_*_hotkey: j = read_json_config()
EditRead(t) ==
  /\ edit[t].pc = "read"
  /\ edit' = [edit EXCEPT ![t].pc = "write", ![t].j = cfg]
  /\ UNCHANGED <<cfg, queue, registered, lastAttempt, regCallers>>

\* write_*_hotkey: j[target] = candidate, write_json_config(j); then the post
\* when the write returned True
EditWrite(t) ==
  /\ edit[t].pc = "write"
  /\ \E ok \in BOOLEAN :
       /\ edit' = [edit EXCEPT ![t].pc = "done", ![t].ok = ok]
       /\ IF ok
          THEN /\ cfg' = [edit[t].j EXCEPT ![edit[t].target] = edit[t].cand]
               /\ Post(t, UpdateMessage(edit[t].target))
          ELSE UNCHANGED <<cfg, queue, registered, lastAttempt, regCallers>>

EditStep(t) == EditBegin(t) \/ EditCheck(t) \/ EditRead(t) \/ EditWrite(t)

settings_change ==
  /\ \E t \in EditThreads : EditStep(t)
  /\ UNCHANGED <<enabled, threadId, loopPc, exit_event, tray, cap, scenario, dispatchVars,
                 exitVars, lastUnreg, hookVars, inj, flip, lay, trip, lastPost>>

----------------------------------------------------------------------------
\* The key of a captured combination from the listener to the registry:
\* _low_level_proc stores vk_to_key_name(vk) with the modifiers held, and
\* update_*_hotkey_in_thread resolves the stored spec with
\* hotkey_tuple_from_config.

\* the key codes the listener records: the keyboard codes of one byte, from
\* Backspace (0x08) to 0xFE, but the modifiers and Escape
CapturableKeys == { vk \in 8..254 : ~_vk_is_modifier(vk) /\ vk # VK_ESCAPE }

IdleTrip == [vk |-> 0, held |-> {}, pc |-> "idle", spec |-> SpecF10, combo |-> <<0, 0>>]

\* the listener's result for trip.vk with trip.held, and what the registry
\* resolves it to
TripCall ==
  /\ trip.pc = "ready"
  /\ LET spec == HotkeySpec(trip.held, vk_to_key_name(trip.vk))
     IN  trip' = [trip EXCEPT !.pc = "done", !.spec = spec,
                              !.combo = hotkey_tuple_from_config(spec)]
  /\ UNCHANGED <<enabled, loopPc, scenario, dispatchVars, registryVars, exitVars,
                 lastUnreg, hookVars, inj, flip, lay, edit, lastPost>>

----------------------------------------------------------------------------
\* The tray's exit item.

\* tray.on_exit: exit_event.set(), then the icon is stopped
on_exit ==
  /\ ~exit_event
  /\ exit_event' = TRUE
  /\ UNCHANGED <<enabled, loopPc, cfg, threadId, queue, registered, lastAttempt, regCallers,
                 tray, cap, scenario, dispatchVars, exitVars, lastUnreg, hookVars, textVars,
                 lastPost>>

----------------------------------------------------------------------------
\* Specification of the transform dispatch.

InitBase(sc) ==
  /\ scenario = sc
  /\ enabled = TRUE
  /\ cfg = DefaultCfg
  /\ now = TRANSLATE_DEBOUNCE_SEC
  /\ last_translate_ts = 0
  /\ handler_lock = FALSE
  /\ wk = [w \in Workers |-> IdleWorker]
  /\ prevTrig = NoTrig
  /\ lastTrig = NoTrig
  /\ lastSpawnTs = -1
  /\ nTrig = 0
  /\ clipboard = UserClip
  /\ clipSeq = 0
  /\ fg = "target"
  /\ keysDown = {}
  /\ doc = <<>>
  /\ copyPending = FALSE
  /\ loopPc = "running"
  /\ threadId = TRUE
  /\ queue = <<>>
  /\ registered = DefaultRegistered
  /\ exit_event = FALSE
  /\ lastAttempt = NoAttempt
  /\ regCallers = {}
  /\ tray = IdleThread
  /\ cap = IdleThread
  /\ exit_handlers = <<>>
  /\ exit_calls = [cb \in Callbacks |-> <<>>]
  /\ lastExit = NoExit
  /\ lastUnreg = NoUnreg
  /\ lastPost = NoPost
  /\ hookFlow = IdleFlow
  /\ osHooks = 0

InitWith(sc) ==
  /\ InitBase(sc)
  /\ inj = IdleInject
  /\ flip = IdleFlip
  /\ lay = IdleLayout
  /\ trip = IdleTrip
  /\ edit = [t \in EditThreads |-> IdleEdit]

WorkerStep(w) ==
  \/ HandleBegin(w)
  \/ SeqCtrlC(w)
  \/ SeqWait(w)
  \/ SeqPaste(w)
  \/ SeqCtrlIns(w)
  \/ FbSentinel(w)
  \/ FbCtrlC(w)
  \/ FbWait(w)
  \/ FbCtrlIns(w)
  \/ HandleCaptured(w)
  \/ HandleDelete(w)
  \/ HandleInject(w)
  \/ HandleFinally(w)
  \/ WorkerRelease(w)
  \/ WorkerExit(w)

Next ==
  \/ _translate_invoker
  \/ _case_invoker
  \/ \E w \in Workers : WorkerStep(w)
  \/ Tick
  \/ set_enabled
  \/ AppCopy

Init == InitWith(DispatchScenario)

Spec == Init /\ [][Next]_vars

InitCycle == InitWith(CycleScenario)

NextCycle ==
  \/ _translate_invoker
  \/ _case_invoker
  \/ \E w \in Workers : WorkerStep(w)
  \/ set_enabled
  \/ ForegroundSwitch
  \/ AppCopy

SpecCycle == InitCycle /\ [][NextCycle]_vars


----------------------------------------------------------------------------
\* Specification of the hotkey registry.

\* the stored configurations at startup: the defaults; the file edited so
\* that translate equals exit; ";" captured for exit in an earlier run
StartCfgs ==
  {DefaultCfg, [DefaultCfg EXCEPT !["translate"] = SpecF10],
   [DefaultCfg EXCEPT !["exit"] = SpecSemicolon]}

InitRegistryWith(sc) ==
  /\ scenario = sc
  /\ enabled = TRUE
  /\ cfg \in StartCfgs
  /\ now = TRANSLATE_DEBOUNCE_SEC
  /\ last_translate_ts = 0
  /\ handler_lock = FALSE
  /\ wk = [w \in Workers |-> IdleWorker]
  /\ prevTrig = NoTrig
  /\ lastTrig = NoTrig
  /\ lastSpawnTs = -1
  /\ nTrig = 0
  /\ clipboard = UserClip
  /\ clipSeq = 0
  /\ fg = "target"
  /\ keysDown = {}
  /\ doc = <<>>
  /\ copyPending = FALSE
  /\ loopPc = "init"
  /\ threadId = FALSE
  /\ queue = <<>>
  /\ registered = [s \in Slots |-> NotRegistered]
  /\ exit_event = FALSE
  /\ lastAttempt = NoAttempt
  /\ regCallers = {}
  /\ tray = IdleThread
  /\ cap = IdleThread
  /\ exit_handlers = <<>>
  /\ exit_calls = [cb \in Callbacks |-> <<>>]
  /\ lastExit = NoExit
  /\ lastUnreg = NoUnreg
  /\ lastPost = NoPost
  /\ hookFlow = IdleFlow
  /\ osHooks = 0
  /\ inj = IdleInject
  /\ flip = IdleFlip
  /\ lay = IdleLayout
  /\ trip = IdleTrip
  /\ edit = [t \in EditThreads |-> IdleEdit]

InitRegistry == InitRegistryWith(DispatchScenario)

NextRegistry ==
  \/ LoopStart
  \/ LoopStartup
  \/ LoopMessage
  \/ LoopExitHotkey
  \/ PressExitHotkey
  \/ toggle_enabled
  \/ _set_hotkey_and_apply
  \/ capture_hotkey_and_apply_via_thread

SpecRegistry == InitRegistry /\ [][NextRegistry]_vars

\* Specification of the recovery from a Conflict: the startup registrations,
\* the changes of a stored spec by the tray and capture threads and the
\* re-apply requests they post, with the history of the rejected slots kept.
InitRecover == InitRegistryWith(RecoverScenario)

NextRecover ==
  \/ LoopStart
  \/ LoopStartup
  \/ LoopMessage
  \/ _set_hotkey_and_apply
  \/ capture_hotkey_and_apply_via_thread

SpecRecover == InitRecover /\ [][NextRecover]_vars

----------------------------------------------------------------------------
\* Specification of the dispatch loop: the notifications of the three slots
\* in its queue, the requests of the tray, the exit callbacks, the ways it
\* ends.  The workers it spawns are followed in Spec and SpecCycle; of the
\* tray's toggle the switch-off is followed here, and the registrations of a
\* switch-on in SpecRegistry.

\* toggle_enabled while the application is enabled, and its two posts
tray_switch_off == (tray.pc # "idle" \/ enabled) /\ toggle_enabled

NextLoop ==
  \/ register_exit_handler
  \/ PressHotkey
  \/ LoopHotkey
  \/ LoopExitHotkey
  \/ LoopBreak
  \/ LoopMessage
  \/ tray_switch_off

SpecLoop == Init /\ [][NextLoop]_vars

----------------------------------------------------------------------------
\* Specification of the capture of a new combination.

NextCapture ==
  \/ CaptureBegin
  \/ HookInstall
  \/ DialogCreate
  \/ HookLoopCheck
  \/ HookKeyDown
  \/ PromptClosed
  \/ HookPumpDone
  \/ HookFinally
  \/ CaptureCommit
  \/ LoopMessage

SpecCapture == Init /\ [][NextCapture]_vars

----------------------------------------------------------------------------
\* Specification of input injection: one call of send_unicode_via_sendinput
\* on each text of InjectTexts.

InitInject ==
  /\ InitBase(DispatchScenario)
  /\ inj \in { [text |-> t, pc |-> "ready", batches |-> <<>>] : t \in InjectTexts }
  /\ flip = IdleFlip
  /\ lay = IdleLayout
  /\ trip = IdleTrip
  /\ edit = [t \in EditThreads |-> IdleEdit]

NextInject == InjectCall

SpecInject == InitInject /\ [][NextInject]_vars

----------------------------------------------------------------------------
\* Specification of the case flip: one call of change_case_by_logic on each
\* text of FlipTexts.

InitCase ==
  /\ InitBase(DispatchScenario)
  /\ inj = IdleInject
  /\ flip \in { [text |-> t, pc |-> "ready", result |-> <<>>] : t \in FlipTexts }
  /\ lay = IdleLayout
  /\ trip = IdleTrip
  /\ edit = [t \in EditThreads |-> IdleEdit]

NextCase == FlipCall

SpecCase == InitCase /\ [][NextCase]_vars

----------------------------------------------------------------------------
\* Specification of the layout flip: one call of
\* transform_text_by_keyboard_layout_based_on_hkl on each text of LayoutTexts
\* under each layout id of LayoutHKLs.

InitLayout ==
  /\ InitBase(DispatchScenario)
  /\ inj = IdleInject
  /\ flip = IdleFlip
  /\ lay \in { [text |-> t, hkl |-> h, pc |-> "ready", result |-> <<>>] :
                t \in LayoutTexts, h \in LayoutHKLs }
  /\ trip = IdleTrip
  /\ edit = [t \in EditThreads |-> IdleEdit]

NextLayout == LayoutCall

SpecLayout == InitLayout /\ [][NextLayout]_vars

----------------------------------------------------------------------------
\* Specification of the settings-facing requests: the six post_* functions
\* called at any moment of the dispatch loop's life (before it has published
\* its thread id, during its startup registrations, while it runs with room
\* in its queue or none, after it has ended).

NextPost ==
  \/ LoopStart
  \/ LoopStartup
  \/ LoopMessage
  \/ PressExitHotkey
  \/ LoopExitHotkey
  \/ post_request

SpecPost == InitRegistry /\ [][NextPost]_vars

----------------------------------------------------------------------------
\* Specification of the failure paths: the loop's startup registrations under
\* the three start configurations and OS refusals, then the notifications of
\* the slots that got registered and the cycles of the workers they spawn,
\* with the clock.

\* WM_HOTKEY of a registered translate or case slot reaches the loop
registered_trigger ==
  \E kind \in {"translate", "case"} :
    /\ registered[kind] # NotRegistered
    /\ Invoker(kind)

NextFailures ==
  \/ LoopStart
  \/ LoopStartup
  \/ registered_trigger
  \/ \E w \in Workers : WorkerStep(w)
  \/ Tick
  \/ AppCopy

SpecFailures == InitRegistry /\ [][NextFailures]_vars

----------------------------------------------------------------------------
\* Specification of concurrent settings changes: one change by the tray
\* thread and one by a capture thread, step by step, while the loop runs and
\* processes the re-apply messages they post.

InitSettings ==
  /\ InitBase(DispatchScenario)
  /\ inj = IdleInject
  /\ flip = IdleFlip
  /\ lay = IdleLayout
  /\ trip = IdleTrip
  /\ edit = [t \in EditThreads |-> IdleEdit]

NextSettings ==
  \/ settings_change
  \/ LoopMessage

SpecSettings == InitSettings /\ [][NextSettings]_vars

----------------------------------------------------------------------------
\* Specification of the key-name round trip: one captured key of
\* CapturableKeys, alone or with Ctrl held, named by the listener and resolved
\* by the registry.

InitTrip ==
  /\ InitBase(DispatchScenario)
  /\ inj = IdleInject
  /\ flip = IdleFlip
  /\ lay = IdleLayout
  /\ trip \in { [IdleTrip EXCEPT !.vk = vk, !.held = h, !.pc = "ready"] :
                  vk \in CapturableKeys, h \in {{}, {"CTRL"}} }
  /\ edit = [t \in EditThreads |-> IdleEdit]

NextTrip == TripCall

SpecTrip == InitTrip /\ [][NextTrip]_vars

----------------------------------------------------------------------------
\* Specification of the exit paths: the exit hotkey and the tray's exit item,
\* with the hotkey notifications the loop goes on receiving and the clock.

NextExit ==
  \/ on_exit
  \/ PressHotkey
  \/ LoopHotkey
  \/ LoopExitHotkey
  \/ Tick

SpecExit == Init /\ [][NextExit]_vars
----------------------------------------------------------------------------
\* Properties of the transform dispatch (Spec).

\* C1: at most one transform worker, translate or case, is between the
\* acquisition of the handler lock and its release; a trigger dispatched
\* while a worker is in flight spawns none; and a worker starts only in the
\* very step that dispatches its trigger, so no trigger is kept for later.
C1_AtMostOneWorker ==
  /\ [](/\ NumInFlight <= 1
        /\ lastTrig.inflight > 0 => lastTrig.outcome # "spawned")
  /\ [][NumInFlight' > NumInFlight
          => nTrig' = nTrig + 1 /\ lastTrig'.outcome = "spawned"]_vars

\* a trigger passed the debounce while a worker held the lock, and was dropped
C1_BusyDropWitness ==
  /\ lastTrig.outcome = "busy"
  /\ lastTrig.inflight = 1
  /\ NumInFlight = 1
  /\ handler_lock

BothEnabled == prevTrig.outcome \notin {"none", "disabled"} /\ lastTrig.outcome # "disabled"

CloseTogether == lastTrig.t - prevTrig.t < TRANSLATE_DEBOUNCE_SEC

\* C2 as stated: of any two triggers dispatched less than the debounce
\* interval apart while the application is enabled, the second spawns nothing.
C2_SecondNeverSpawns ==
  (BothEnabled /\ CloseTogether) => lastTrig.outcome # "spawned"

\* C2, amended: a trigger dispatched less than the debounce interval after a
\* trigger that spawned a worker, or that was dropped because the lock was
\* busy, spawns nothing; any two spawns are at least the interval apart.
C2_NoSpawnWithinDebounceOfAccepted ==
  /\ (prevTrig.outcome \in {"spawned", "busy"} /\ CloseTogether)
       => lastTrig.outcome \in {"debounce", "disabled"}
  /\ lastTrig.outcome = "spawned"
       => lastTrig.sinceSpawn = -1 \/ lastTrig.sinceSpawn >= TRANSLATE_DEBOUNCE_SEC

\* a trigger was debounced right after one that spawned a worker
C2_DebouncedWitness ==
  /\ prevTrig.outcome = "spawned"
  /\ lastTrig.outcome = "debounce"
  /\ lastTrig.t > prevTrig.t
  /\ CloseTogether

\* C9: the handler lock is never left held with no worker running, whatever
\* became of the accepted trigger, a failure to start the worker included.
C9_LockHeldOnlyByWorker ==
  handler_lock => NumInFlight >= 1

----------------------------------------------------------------------------
\* Properties of the capture cycle (SpecCycle).

Synthesized(w, kinds) == {i \in 1..Len(wk[w].ev) : wk[w].ev[i].kind \in kinds}

Ended(w) == wk[w].pc = "done"

\* C6: a cycle whose capture returned empty text synthesizes no Delete
\* keystroke and no injected text before the worker ends.
C6_EmptyCaptureNoReplace ==
  \A w \in Workers :
    wk[w].selected = <<>> =>
      /\ Synthesized(w, {"delete", "inject"}) = {}
      /\ wk[w].pc \notin {"delete", "inject"}

\* capture came back empty although the target had a selection
\* (foreground change, or the copy never arrived), and the worker ended
C6_EmptyWitness ==
  \E w \in Workers :
    /\ Ended(w)
    /\ wk[w].outcome = "empty"
    /\ doc # <<>>
    /\ Synthesized(w, {"ctrl_c"}) # {}

\* C7: a cycle whose transformed text equals the captured text synthesizes
\* no Delete keystroke and no injected text, and the selection stays in place.
C7_NoOpNoReplace ==
  \A w \in Workers :
    (/\ wk[w].selected # <<>>
     /\ Transform(wk[w].kind, wk[w].selected, wk[w].hkl) = wk[w].selected)
    => /\ Synthesized(w, {"delete", "inject"}) = {}
       /\ wk[w].pc \notin {"delete", "inject"}
       /\ doc = wk[w].selected

\* "1" was captured, which neither transform changes, and the worker ended
C7_NoOpWitness ==
  \E w \in Workers :
    /\ Ended(w)
    /\ wk[w].outcome = "noop"
    /\ wk[w].selected = <<49>>

\* the left-side key of the modifier a key belongs to
LeftKeyOf(k) ==
  IF k \in {VK_LCONTROL, VK_RCONTROL} THEN VK_LCONTROL
  ELSE IF k \in {VK_LMENU, VK_RMENU} THEN VK_LMENU
  ELSE IF k \in {VK_LSHIFT, VK_RSHIFT} THEN VK_LSHIFT
  ELSE VK_LWIN

\* C8 as stated: when the worker ends, each modifier key released at the
\* start of the cycle is down again.
C8_SameKeysPressedAgain ==
  \A w \in Workers : Ended(w) => wk[w].pressed_vks \subseteq keysDown

\* C8, amended: when the worker ends, for each modifier key released at the
\* start of the cycle the left-side key of the same modifier is down, on
\* every outcome.
C8_LeftKeysPressedAgain ==
  \A w \in Workers :
    Ended(w) => \A k \in wk[w].pressed_vks : LeftKeyOf(k) \in keysDown

\* right Alt and left Ctrl were released and the cycle failed after capture
C8_RestoredWitness ==
  \E w \in Workers :
    /\ Ended(w)
    /\ wk[w].outcome = "failed"
    /\ wk[w].pressed_vks = {VK_LCONTROL, VK_RMENU}
    /\ keysDown = {VK_LCONTROL, VK_LMENU}

\* C10: when the cycle has completed, the clipboard holds what it held
\* before the cycle started.
C10_ClipboardUnchanged ==
  \A w \in Workers : (Ended(w) /\ wk[w].outcome # "disabled") => clipboard = wk[w].clipBefore

----------------------------------------------------------------------------
\* Properties of the hotkey registry (SpecRegistry).

RegisteredSlots == {s \in Slots : registered[s] # NotRegistered}

\* C3: the combinations the slots are registered with are pairwise distinct
\* at all times, and a registration is attempted at the OS only after the
\* slot's resolved spec was found to differ from both siblings' stored specs.
C3_RegisteredPairwiseDistinct ==
  /\ \A a, b \in RegisteredSlots : a # b => registered[a] # registered[b]
  /\ lastAttempt.outcome \in {"registered", "os_refused"} => lastAttempt.equalTo = {}

\* all three slots are registered, one of them with the captured "," key
C3_AllRegisteredWitness ==
  /\ RegisteredSlots = Slots
  /\ \E s \in Slots :
       /\ cfg[s] = SpecComma
       /\ registered[s] = hotkey_tuple_from_config(SpecComma)
       /\ lastAttempt.slot = s

C5_OnlyLoopRegisters ==
  regCallers \subseteq {"loop"}

\* the tray switched the application off and the loop, on its messages,
\* unregistered translate and case
C5_UnregisteredByMessageWitness ==
  /\ regCallers = {"loop"}
  /\ ~enabled
  /\ tray.pc = "idle"
  /\ queue = <<>>
  /\ lastAttempt.slot = "case"
  /\ lastAttempt.outcome = "registered"
  /\ registered["case"] = NotRegistered
  /\ registered["translate"] = NotRegistered


----------------------------------------------------------------------------
\* Selection capture: foreground changes and termination.

Returned(w) == wk[w].pc = "captured"

\* C11 as stated: whenever the foreground window changed at some point between
\* the start of selection capture and its return, capture returns empty text.
C11_ForegroundChangeReturnsEmpty ==
  \A w \in Workers : (Returned(w) /\ wk[w].fgChanged) => wk[w].selected = <<>>

\* the copy keystrokes a capture has sent so far
CopyKeystrokes(w) ==
  Cardinality({i \in 1..Len(wk[w].ev) : wk[w].ev[i].kind \in {"ctrl_c", "ctrl_insert"}})

\* the place of a step in safe_copy_from_selection
PcRank(pc) ==
  CASE pc \in {"seq_ctrl_c", "fb_sentinel"} -> 1
    [] pc \in {"seq_wait_c", "fb_ctrl_c"} -> 2
    [] pc \in {"seq_paste_c", "fb_wait_c"} -> 3
    [] pc \in {"seq_ctrl_ins", "fb_ctrl_ins"} -> 4
    [] pc \in {"seq_wait_i", "fb_wait_i"} -> 5
    [] pc = "seq_paste_i" -> 6
    [] OTHER -> 7

\* steps and polling rounds behind a capture: it grows with every step
CaptureRank(rec) == PcRank(rec.pc) * scenario.rounds + rec.polls

CaptureStepEnabled(w) ==
  ENABLED (\/ SeqCtrlC(w) \/ SeqWait(w) \/ SeqPaste(w) \/ SeqCtrlIns(w)
           \/ FbSentinel(w) \/ FbCtrlC(w) \/ FbWait(w) \/ FbCtrlIns(w))

\* C12: selection capture always terminates and never raises.  A capture in
\* progress can always take its next step, every step moves it forward (so it
\* returns after at most 7 * rounds steps), it sends at most two copy
\* keystrokes and polls at most `rounds` times per wait; and when it returns
\* with the sequence number unchanged, or with the sentinel still on the
\* clipboard, it returns empty text together with the modifier set it released.
C12_CaptureTerminatesEmpty ==
  /\ [](\A w \in Workers :
          /\ InCapture(w) => CaptureStepEnabled(w)
          /\ CopyKeystrokes(w) <= 2
          /\ wk[w].polls < scenario.rounds
          /\ (Returned(w) /\ wk[w].old_seq # NoSeq /\ clipSeq = wk[w].old_seq)
               => wk[w].selected = <<>>
          /\ (Returned(w) /\ wk[w].old_seq = NoSeq /\ clipboard = Sentinel)
               => wk[w].selected = <<>>
          /\ (Returned(w) /\ wk[w].pressed_vks # {})
               => wk[w].ev[1] = Ev("release", wk[w].pressed_vks, <<>>))
  /\ [][\A w \in Workers :
          (InCapture(w) /\ <<wk[w].pc, wk[w].polls>>' # <<wk[w].pc, wk[w].polls>>)
            => /\ wk'[w].pc \in CapturePcs \cup {"captured"}
               /\ CaptureRank(wk'[w]) > CaptureRank(wk[w])]_vars

\* a capture that sent both copy keystrokes and polled every round of both
\* waits of the sequence strategy without a change, and returned empty text
C12_TimedOutWitness ==
  \E w \in Workers :
    /\ Returned(w)
    /\ wk[w].old_seq # NoSeq /\ clipSeq = wk[w].old_seq
    /\ CopyKeystrokes(w) = 2
    /\ ~wk[w].fgChanged
    /\ wk[w].pressed_vks # {}
    /\ wk[w].selected = <<>>

----------------------------------------------------------------------------
\* The end of the dispatch loop.

AllUnregistered == \A s \in Slots : registered[s] = NotRegistered

\* C13: when the loop processes the exit slot's notification, the
\* cancellation flag is set, every registered exit callback has been invoked,
\* all three slots are unregistered and the loop has ended; once it has ended
\* no trigger is dispatched any more, whatever notification was still queued.
C13_ExitHotkeyEndsLoop ==
  /\ [](lastExit.why = "hotkey" =>
          /\ exit_event
          /\ \A cb \in SeqRange(exit_handlers) : exit_calls[cb] # <<>>
          /\ AllUnregistered
          /\ loopPc = "exited"
          /\ queue = <<>>)
  /\ [][loopPc = "exited" =>
          /\ loopPc' = "exited"
          /\ nTrig' = nTrig /\ wk' = wk /\ handler_lock' = handler_lock
          /\ registered' = registered]_vars

\* the exit notification was processed with a callback registered and a
\* translate or case notification behind it in the queue
C13_PendingDroppedWitness ==
  /\ lastExit.why = "hotkey"
  /\ lastExit.pending > 0
  /\ exit_handlers # <<>>
  /\ loopPc = "exited"

\* C14 as stated: when the loop has ended, for whatever reason, each
\* registered callback has been invoked exactly once, by the loop thread.
C14_InvokedExactlyOnce ==
  loopPc = "exited" => \A cb \in SeqRange(exit_handlers) : exit_calls[cb] = <<"loop">>

----------------------------------------------------------------------------
\* Triggers while the application is disabled.

\* the keystrokes and clipboard writes of the pipeline leave these alone
NothingSynthesized ==
  /\ keysDown' = keysDown
  /\ clipboard' = clipboard /\ clipSeq' = clipSeq
  /\ doc' = doc /\ copyPending' = copyPending

----------------------------------------------------------------------------
\* Unregistering a slot.

----------------------------------------------------------------------------
\* The keyboard listener of the capture dialog.

FlowPaths == {"nohook", "success", "escape", "closed", "timeout", "exception"}

\* C17: the listener installed by the capture flow is removed on every way
\* out of it.  The process never has more than the one listener the running
\* flow installed, and whenever the flow has returned -- with a combination,
\* after Escape, after the prompt was closed, after the timeout, after an
\* exception, or because no listener could be installed -- none remains.
C17_ListenerRemoved ==
  /\ osHooks \in {0, 1}
  /\ osHooks = 1 => hookFlow.hook_handle /\ hookFlow.pc \in {"dialog", "loop_check", "loop_pump", "finally"}
  /\ hookFlow.pc \in {"returned", "idle"} => osHooks = 0
  /\ hookFlow.pc = "returned" => hookFlow.path \in FlowPaths

\* a flow that installed the listener and left its loop through an exception
\* has returned
C17_ExceptionPathWitness ==
  /\ hookFlow.pc = "returned"
  /\ hookFlow.hook_handle
  /\ hookFlow.path = "exception"
  /\ hookFlow.nKeys > 0
  /\ osHooks = 0

\* C18 as stated: once the listener has seen an Escape key-down, the flow
\* returns None and the runner commits nothing, whatever the listener sees
\* before it is removed.
C18_EscapeYieldsNone ==
  (hookFlow.escSeen /\ hookFlow.pc \in {"returned", "idle"})
    => (hookFlow.result = NoneResult /\ ~hookFlow.committed)

----------------------------------------------------------------------------
\* The events the contract of inject prescribes for a text: a Tab pair for a
\* tab, one Shift+Enter chord for CR, LF or CRLF, and a Unicode pair carrying
\* the code point for any other character.
RECURSIVE PrescribedEvents(_)
PrescribedEvents(text) ==
  IF text = <<>> THEN <<>>
  ELSE LET c == Head(text)
           chord == << [wVk |-> VK_SHIFT, wScan |-> 0, dwFlags |-> 0],
                       [wVk |-> VK_RETURN, wScan |-> 0, dwFlags |-> 0],
                       [wVk |-> VK_RETURN, wScan |-> 0, dwFlags |-> KEYEVENTF_KEYUP],
                       [wVk |-> VK_SHIFT, wScan |-> 0, dwFlags |-> KEYEVENTF_KEYUP] >>
       IN  IF c = CrCh /\ Len(text) >= 2 /\ text[2] = LfCh
           THEN chord \o PrescribedEvents(Tail(Tail(text)))
           ELSE IF c \in {CrCh, LfCh}
           THEN chord \o PrescribedEvents(Tail(text))
           ELSE IF c = TabCh
           THEN << [wVk |-> VK_TAB, wScan |-> 0, dwFlags |-> 0],
                   [wVk |-> VK_TAB, wScan |-> 0, dwFlags |-> KEYEVENTF_KEYUP] >>
                \o PrescribedEvents(Tail(text))
           ELSE << [wVk |-> 0, wScan |-> c, dwFlags |-> KEYEVENTF_UNICODE],
                   [wVk |-> 0, wScan |-> c,
                    dwFlags |-> KEYEVENTF_UNICODE + KEYEVENTF_KEYUP] >>
                \o PrescribedEvents(Tail(text))

\* C19: for every text, inject submits one batch holding, in text order, a Tab
\* down/up pair per tab, one Shift+Enter chord per line break (CR, LF and CRLF
\* are one break each) and one Unicode down/up pair carrying the code point of
\* every other character, also above 0xFFFF; empty text submits nothing.
C19_InjectEventsCarryCodePoints ==
  inj.pc = "done" =>
    IF inj.text = <<>> THEN inj.batches = <<>>
    ELSE inj.batches = << PrescribedEvents(inj.text) >>

----------------------------------------------------------------------------
\* positions of the letters of a text
LetterPositions(s) == {i \in 1..Len(s) : IsAlphaCh(s[i])}

\* a character str.upper or str.lower changes
HasCaseMapping(c) == UpperCh(c) # c \/ LowerCh(c) # c

\* what the case flip does to the letters, and the three examples
FlipOfLetters(s, r) ==
  LET letters == LetterPositions(s)
  IN  /\ DOMAIN r = DOMAIN s
      /\ letters = {} => r = s
      /\ (letters # {} /\ \A i \in letters : IsLowerCh(s[i]))
           => \A i \in letters : r[i] = UpperCh(s[i]) /\ IsUpperCh(r[i])
      /\ (letters # {} /\ \E i \in letters : ~IsLowerCh(s[i]))
           => \A i \in letters : r[i] = LowerCh(s[i]) /\ ~IsUpperCh(r[i])
      /\ s = <<104, 101, 108, 108, 111>> => r = <<72, 69, 76, 76, 79>>
      /\ s = <<72, 69, 76, 76, 79>> => r = <<104, 101, 108, 108, 111>>
      /\ s = <<72, 101, 108, 108, 79>> => r = <<104, 101, 108, 108, 111>>

\* C20 as stated: a text without letters is returned unchanged; when all its
\* letters are lowercase every letter becomes uppercase, otherwise every letter
\* becomes lowercase ("hello" -> "HELLO", "HELLO" -> "hello", "HellO" ->
\* "hello"); every non-letter character is unchanged.
C20_NonLettersUnchanged ==
  flip.pc = "done" =>
    /\ FlipOfLetters(flip.text, flip.result)
    /\ \A i \in (1..Len(flip.text)) \ LetterPositions(flip.text) :
         flip.result[i] = flip.text[i]

\* C20, amended: the same rule for the letters; a non-letter character is
\* unchanged when it has no case mapping, and a non-letter that has one (a
\* circled Latin letter, a Roman numeral sign) is converted in the direction
\* the letters of the text are converted.
C20_CaseFlip ==
  flip.pc = "done" =>
    /\ FlipOfLetters(flip.text, flip.result)
    /\ \A i \in (1..Len(flip.text)) \ LetterPositions(flip.text) :
         /\ ~HasCaseMapping(flip.text[i]) => flip.result[i] = flip.text[i]
         /\ flip.result[i] \in {UpperCh(flip.text[i]), LowerCh(flip.text[i])}
         /\ LetterPositions(flip.text) = {} => flip.result[i] = flip.text[i]

\* "Hh" followed by a circled capital A: mixed case folds to lowercase, and
\* the circled letter with it
C20_MixedWithCasedSymbolWitness ==
  /\ flip.pc = "done"
  /\ flip.text = <<72, 104, 9398>>
  /\ flip.result = <<104, 104, 9424>>

----------------------------------------------------------------------------
\* Layout flip.

\* the image of a character in a table, when it has one
HasImage(table, ch) == \E p \in table : p[1] = ch

ImageIn(table, ch) == (CHOOSE p \in table : p[1] = ch)[2]

\* the character-by-character rule: image in `first`, else image in `second`,
\* else the character itself
FlippedBy(first, second, s, r) ==
  /\ Len(r) = Len(s)
  /\ \A i \in 1..Len(s) :
       r[i] = IF HasImage(first, s[i]) THEN ImageIn(first, s[i])
              ELSE IF HasImage(second, s[i]) THEN ImageIn(second, s[i])
              ELSE s[i]

----------------------------------------------------------------------------
\* Settings-facing requests.

\* everything but the loop thread's queue and the record of the request
AllButQueue ==
  <<enabled, loopPc, cfg, threadId, registered, exit_event, lastAttempt, regCallers,
    tray, cap, scenario, dispatchVars, exitVars, lastUnreg, hookVars, textVars>>

\* PostThreadMessageW refuses: the loop thread has ended or its queue is full
PostRefused == loopPc = "exited" \/ Len(queue) >= MaxQueue

\* C22: a settings-facing request only posts a message to the dispatch loop
\* and changes no registration on the calling thread; when the loop's thread
\* id is not yet known or the post is refused it posts nothing, changes no
\* state and returns False.
C22_RequestOnlyPosts ==
  [][lastPost' # lastPost =>
       /\ UNCHANGED AllButQueue
       /\ regCallers' = regCallers /\ registered' = registered
       /\ lastPost'.msg \in RegistryMessages
       /\ IF ~threadId \/ PostRefused
          THEN ~lastPost'.ok /\ queue' = queue
          ELSE lastPost'.ok /\ queue' = Append(queue, lastPost'.msg)]_vars

\* a request made before the loop has published its thread id returned False
C22_ThreadIdUnknownWitness ==
  /\ lastPost.msg = "MSG_UPDATE_EXIT_HOTKEY"
  /\ ~lastPost.ok
  /\ ~threadId
  /\ queue = <<>>

----------------------------------------------------------------------------
\* C23 as stated: a trigger dropped by debounce, by the busy handler lock or
\* because the application is disabled leaves the debounce reference time
\* alone, and a trigger dispatched (application enabled) at least one interval
\* after the last trigger that spawned a worker is not rejected by debounce.
C23_DebounceFromLastSpawn ==
  /\ [][(nTrig' = nTrig + 1 /\ lastTrig'.outcome \in {"debounce", "busy", "disabled"})
          => last_translate_ts' = last_translate_ts]_vars
  /\ [][(/\ nTrig' = nTrig + 1
         /\ enabled
         /\ lastSpawnTs >= 0
         /\ now - lastSpawnTs >= TRANSLATE_DEBOUNCE_SEC)
          => lastTrig'.outcome # "debounce"]_vars

----------------------------------------------------------------------------
\* the keystrokes of one kind a capture has sent
SentOfKind(w, kind) == Cardinality({i \in 1..Len(wk[w].ev) : wk[w].ev[i].kind = kind})

\* C24 as stated: with the clipboard sequence number available and never
\* changing and the foreground window stable, capture has sent max_attempts
\* Ctrl+C and max_attempts Ctrl+Insert keystrokes (two each with the worker's
\* max_attempts = 2) when it returns empty text.
C24_RoundsPerMaxAttempts ==
  \A w \in Workers :
    (/\ Returned(w)
     /\ wk[w].old_seq # NoSeq
     /\ clipSeq = wk[w].old_seq
     /\ ~wk[w].fgChanged)
      => /\ wk[w].selected = <<>>
         /\ SentOfKind(w, "ctrl_c") = MAX_ATTEMPTS
         /\ SentOfKind(w, "ctrl_insert") = MAX_ATTEMPTS

----------------------------------------------------------------------------
\* C25 as stated: a registration attempt rejected with Conflict leaves the OS
\* registration of all three slots as it was before the attempt, the slot of
\* the attempt included.
C25_ConflictChangesNothing ==
  [][(lastAttempt' # lastAttempt /\ lastAttempt'.outcome = "conflict")
       => registered' = registered]_vars

\* C26: a registration attempt that ends rejected for a conflict or refused
\* by the OS leaves its slot unregistered and the two other slots'
\* registrations as they were; a slot's registration changes to a combination
\* only in an attempt for that slot that ended registered, and the combination
\* is the one its stored spec resolves to at that moment.
C26_FailedAttemptLeavesUnregistered ==
  /\ [][(lastAttempt' # lastAttempt /\ lastAttempt'.outcome \in {"conflict", "os_refused"})
          => /\ registered'[lastAttempt'.slot] = NotRegistered
             /\ \A a \in Slots \ {lastAttempt'.slot} : registered'[a] = registered[a]]_vars
  /\ [][\A s \in Slots :
          (registered'[s] # registered[s] /\ registered'[s] # NotRegistered)
            => /\ lastAttempt'.slot = s
               /\ lastAttempt'.outcome = "registered"
               /\ cfg' = cfg
               /\ registered'[s] = hotkey_tuple_from_config(read_hotkey(s))]_vars

\* the OS refused the combination newly stored for a slot, which is left
\* unregistered while a sibling stays registered
C26_RefusedWitness ==
  /\ lastAttempt.outcome = "os_refused"
  /\ registered[lastAttempt.slot] = NotRegistered
  /\ cfg[lastAttempt.slot] # DefaultCfg[lastAttempt.slot]
  /\ \E a \in Slots \ {lastAttempt.slot} : registered[a] # NotRegistered

\* C27: in every reachable state in which the application is disabled the
\* translate slot is not registered, under every interleaving of the tray's
\* toggle with the loop's processing of its messages.
C27_DisabledTranslateNotRegistered ==
  ~enabled => registered["translate"] = NotRegistered

\* C28 as stated: the combination the capture flow returns is the first
\* key-down of a key that is neither a modifier nor Escape which the listener
\* observed, with the modifiers held at that moment; key-downs the listener
\* observes after it and before it is removed do not change what is returned.
C28_FirstKeyDownReturned ==
  (hookFlow.pc = "returned" /\ hookFlow.first # InitialResult
     /\ hookFlow.path \in {"success", "escape"})
    => hookFlow.result = hookFlow.first

\* the candidate has the modifiers and the key of the spec stored for one of
\* the two other slots
EqualsSiblingSpec(target, cand) ==
  \E a \in Slots \ {target} :
    cand.modifiers = cfg[a].modifiers /\ cand.key = cfg[a].key

UpdateMessages ==
  {"MSG_UPDATE_EXIT_HOTKEY", "MSG_UPDATE_TRANSLATE_HOTKEY", "MSG_UPDATE_CASE_HOTKEY"}

\* one step of a thread that applies a new combination (the tray with a
\* preset, the capture thread with what the dialog returned)
ApplyStep(before, after) ==
  /\ (before.pc = "idle" /\ after.pc = "write")
       => ~EqualsSiblingSpec(after.target, after.cand)
  /\ (before.pc = "write" /\ after.pc # "write")
       => \/ cfg' = cfg /\ queue' = queue
          \/ /\ cfg' = [cfg EXCEPT ![before.target] = before.cand]
             /\ queue' = IF CanPost THEN Append(queue, UpdateMessage(before.target))
                         ELSE queue

\* C29: a candidate for slot X that equals the spec stored for one of the two
\* other slots is rejected: it never reaches the store, so X's stored spec is
\* not written and no re-apply message for X is posted.  Any other candidate,
\* one equal to X's own stored spec included, goes on to the store, and the
\* one re-apply request for X is made only with a store that succeeded.  The
\* stored specs change, and re-apply messages are posted, in no other step.
C29_ConflictingCandidateRejected ==
  /\ [][ApplyStep(tray, tray') /\ ApplyStep(cap, cap')]_vars
  /\ [][(cfg' # cfg \/ (Len(queue') > Len(queue) /\ queue'[Len(queue')] \in UpdateMessages))
          => \/ tray.pc = "write" /\ tray'.pc = "idle" /\ cap' = cap
             \/ cap.pc = "write" /\ cap'.pc = "idle" /\ tray' = tray]_vars

\* a candidate equal to the edited slot's own stored spec has passed the
\* check and is about to be stored, while another stored spec differs from
\* its default
C29_OwnSpecNotComparedWitness ==
  \E th \in {tray, cap} :
    /\ th.pc = "write"
    /\ th.cand = cfg[th.target]
    /\ ~EqualsSiblingSpec(th.target, th.cand)
    /\ cfg # DefaultCfg

\* the cycle of worker w reached the inject step and went past it
PastInject(w) == wk[w].outcome \in {"injected", "pasted", "not_injected"}

\* C30 as stated: in every cycle that reached the inject step the replacement
\* text is delivered, by the Unicode injection or, when that fails, by the
\* clipboard and a synthesized Ctrl+V.
C30_ReplacementDelivered ==
  \A w \in Workers :
    PastInject(w) =>
      \E i \in Synthesized(w, {"inject", "ctrl_v"}) : wk[w].ev[i].text = wk[w].converted

----------------------------------------------------------------------------
\* The replace step of a cycle.

Deletes(w) == Synthesized(w, {"delete"})

Injections(w) == Synthesized(w, {"inject", "ctrl_v"})

\* C31: a cycle synthesizes at most one Delete keystroke; a cycle that injects
\* text has synthesized exactly one, before every injection event; the
\* injection is attempted only after the Delete, and a cycle that has sent the
\* Delete is at the injection or past it.
C31_DeleteThenInject ==
  \A w \in Workers :
    /\ Cardinality(Deletes(w)) <= 1
    /\ Injections(w) # {} =>
         /\ Cardinality(Deletes(w)) = 1
         /\ \A d \in Deletes(w), i \in Injections(w) : d < i
    /\ (wk[w].pc = "inject" \/ PastInject(w)) => Deletes(w) # {}
    /\ Deletes(w) # {} => (wk[w].pc = "inject" \/ PastInject(w))

\* a cycle that held a modifier released, deleted, injected and has ended
C31_ReplacedWitness ==
  \E w \in Workers :
    /\ Ended(w)
    /\ wk[w].outcome = "injected"
    /\ wk[w].pressed_vks # {}
    /\ Cardinality(Deletes(w)) = 1
    /\ Cardinality(Injections(w)) = 1

----------------------------------------------------------------------------
\* Failure paths.

RegistryFailures == {"conflict", "os_refused"}

WorkerFailures == {"empty", "failed", "not_injected"}

\* C32: a registration attempt that ends in Conflict or is refused by the OS,
\* and a cycle that ends with an empty capture, an exception or an injection
\* that delivered less than submitted, leave the dispatch loop running; the
\* worker of such a cycle releases the handler lock, and a trigger dispatched
\* while the application is enabled, outside the debounce interval and with
\* the lock free reaches the start of a worker.  The loop ends in none of
\* these ways.
C32_FailuresLeaveLoopRunning ==
  /\ [][(lastAttempt' # lastAttempt /\ lastAttempt'.outcome \in RegistryFailures)
          => loopPc' # "exited" /\ ~exit_event']_vars
  /\ [][\A w \in Workers :
          (wk'[w] # wk[w] /\ wk'[w].outcome \in WorkerFailures)
            => /\ loopPc' = loopPc
               /\ registered' = registered
               /\ (wk'[w].pc = "done" => ~handler_lock')]_vars
  /\ [][(nTrig' = nTrig + 1 /\ enabled /\ ~Debounced /\ ~handler_lock)
          => lastTrig'.outcome \in {"spawned", "startfail"}]_vars
  /\ [][(loopPc # "exited" /\ loopPc' = "exited")
          => nTrig' = nTrig + 1 /\ lastTrig'.outcome = "startfail"]_vars

\* after a refused registration at startup a cycle has ended in a failure, and
\* the next trigger of a registered slot would pass the debounce and find the
\* lock free
C32_ReadyAfterFailuresWitness ==
  /\ loopPc = "running"
  /\ \E s \in Slots : registered[s] = NotRegistered
  /\ lastAttempt.outcome \in RegistryFailures
  /\ \E w \in Workers : Ended(w) /\ wk[w].outcome \in WorkerFailures
  /\ ~handler_lock
  /\ ~Debounced
  /\ nTrig < MaxTriggers
  /\ \E kind \in {"translate", "case"} : registered[kind] # NotRegistered

----------------------------------------------------------------------------
\* Concurrent settings changes.

\* both threads have finished their change, for two different slots
BothEditsOver ==
  /\ \A t \in EditThreads : edit[t].pc \in {"done", "refused"}
  /\ edit["tray"].target # edit["capture"].target

\* thread t wrote its candidate to the configuration file
Committed(t) == edit[t].pc = "done" /\ edit[t].ok

\* C33 as stated: after a tray preset change of one slot and a capture-thread
\* change of another slot, interleaved in any order, no two slots hold the
\* same stored combination and the stored configuration holds the candidate
\* of every change that was committed.
C33_DistinctAndNoneLost ==
  BothEditsOver =>
    /\ \A a, b \in Slots : a # b => ~hotkey_lists_equal(cfg[a], cfg[b])
    /\ \A t \in EditThreads : Committed(t) => cfg[edit[t].target] = edit[t].cand

----------------------------------------------------------------------------
\* The key-name round trip.

\* C40 as stated: for every key the capture flow can record, the name the
\* listener stores resolves back to the key's code, so the combination the
\* registry registers is the modifiers held with the key pressed.
C40_KeyNameRoundTrip ==
  trip.pc = "done" =>
    /\ key_name_to_vk(vk_to_key_name(trip.vk)) = trip.vk
    /\ trip.combo = <<modifiers_list_to_mask(trip.held), trip.vk>>

----------------------------------------------------------------------------
\* The name-level check and the registry's check.

\* a step of the loop that calls update_*_hotkey_in_thread
AttemptStep ==
  \/ lastAttempt' # lastAttempt
  \/ loopPc \in {"startup_exit", "startup_translate", "startup_case"} /\ loopPc' # loopPc
  \/ /\ loopPc = "running" /\ queue # <<>> /\ queue' = Tail(queue)
     /\ Head(queue) \in UpdateMessages

\* C34 as stated: the registry rejects a slot's stored spec as Conflict only
\* when the name-level comparison of the settings surface and capture flow
\* finds it equal to the reported sibling's stored spec; a spec those accepted
\* (different from both siblings by modifier-name set and key name) is never
\* rejected as Conflict.
C34_ChecksAgree ==
  [][ (AttemptStep /\ lastAttempt'.outcome = "conflict") =>
        hotkey_lists_equal(cfg[lastAttempt'.slot], cfg[lastAttempt'.sibling]) ]_vars

----------------------------------------------------------------------------
\* The case slot and the enabled flag.

\* the loop runs, its queue is empty and no settings thread is between two
\* of its steps
Quiescent ==
  /\ loopPc = "running"
  /\ queue = <<>>
  /\ tray.pc = "idle"
  /\ cap.pc = "idle"

\* C35 as stated: once every posted message has been processed, the case slot
\* is unregistered whenever the application is disabled, whether it was
\* disabled by the tray toggle, before the loop's startup registrations, or
\* had the case slot re-applied while disabled.
C35_DisabledCaseUnregistered ==
  (Quiescent /\ ~enabled) => registered["case"] = NotRegistered

----------------------------------------------------------------------------
\* The window that receives the replacement.

\* C36 as stated: every Delete keystroke and every injected text of a cycle
\* is synthesized while the foreground window is the one that was in the
\* foreground when the cycle's capture started; a cycle whose foreground
\* window changed after the capture synthesizes neither into the new window.
C36_ReplaceInCapturedWindow ==
  \A w \in Workers :
    \A i \in Synthesized(w, {"delete", "inject"}) :
      wk[w].ev[i].hwnd = wk[w].initial_hwnd

----------------------------------------------------------------------------
\* A committed change of a stored spec takes effect.

\* every message posted has been processed (or the loop has ended) and no
\* settings thread is between two of its steps
Drained ==
  /\ loopPc \in {"running", "exited"}
  /\ queue = <<>>
  /\ tray.pc = "idle"
  /\ cap.pc = "idle"

\* C37 as stated: once the changes of the stored specs have been committed
\* and the message queue is drained, every slot is registered with exactly
\* its stored spec or is unregistered; no slot is still registered with a
\* combination its stored spec had before a change.
C37_CommittedChangeApplied ==
  Drained =>
    \A slot \in Slots :
      registered[slot] \in {NotRegistered, hotkey_tuple_from_config(cfg[slot])}

----------------------------------------------------------------------------
\* After the cancellation flag is set.

\* C38 as stated (its first half): once exit_event is set, by the exit
\* hotkey or by the tray's exit item, no trigger spawns a transform worker.
C38_NoWorkerAfterExitEvent ==
  [][ exit_event => ~(nTrig' > nTrig /\ lastTrig'.outcome = "spawned") ]_vars

----------------------------------------------------------------------------
\* Recovery of a slot rejected with Conflict.

\* slot x is as its rejection left it (its stored spec names a key and still
\* resolves to the combination refused), sibling y has since been re-applied
\* and registered, no stored spec resolves to the combination of x any more,
\* and every message has been processed
ConflictGone(x, y, combo) ==
  /\ Quiescent
  /\ enabled
  /\ combo[2] # 0
  /\ hotkey_tuple_from_config(cfg[x]) = combo
  /\ lastAttempt.slot = y
  /\ lastAttempt.outcome = "registered"
  /\ EqualSiblings(x) = {}

\* C39 as stated: when the most recent call for slot x ended in Conflict
\* because its spec equalled sibling y's, and y's spec has since been changed
\* and re-applied and the queue is drained, x is registered, without a
\* re-apply request for x.
C39_ConflictRecovers ==
  \A p \in lastAttempt.rejected :
    ConflictGone(p[1], p[2], p[3]) => registered[p[1]] # NotRegistered

====
